---- MODULE Spec2Model ----
(***************************************************************************)
(* Model of the SysYTest test engine (src/src/tester.py):                  *)
(* CompilerTester.compile_project, CompilerTester.test and                 *)
(* CompilerTester.test_parallel, with the files they keep in the work      *)
(* directory and the thread pool test_parallel runs its cases on.          *)
(***************************************************************************)
EXTENDS Integers, Sequences, FiniteSets, TLC

\* ------------------------------------------------------------------ bounds
\* Largest case list handed to test_parallel in the scheduler specification.
MaxCases == 3
\* Largest max_workers handed to test_parallel.
MaxWorkers == 2
\* Largest case list handed to test_parallel in the session specification.
MaxSessionCases == 2
\* Largest case list handed to test_parallel in the pipeline specification.
MaxPipelineCases == 1
\* Longest text handed to the comparator on its own.
MaxTextLen == 3
\* Most lines of a text handed to _log_failure to have its lines compared.
MaxLines == 9
\* Most runs started from the test tab, and longest case list of a run.
MaxRuns == 2
MaxRunCases == 2
\* Most chat() calls and API calls of an agent conversation, and most
\* tool_use blocks in one response.
MaxChats == 2
MaxApiCalls == 2
MaxToolCalls == 2
\* Most test cases the tool server closes (by saving or discarding).
MaxServerCases == 2

\* ------------------------------------------------------------- data model
SUPPORTED_LANGUAGES == {"java", "c", "cpp"}

\* Values the "programming language" field of config.json can take: the
\* three supported ones and one that is not ("rust" stands for any other).
Languages == SUPPORTED_LANGUAGES \cup {"rust"}

\* models.TestStatus
PASSED == "PASSED"
FAILED == "FAILED"
COMPILE_ERROR == "COMPILE_ERROR"
RUNTIME_ERROR == "RUNTIME_ERROR"
TIMEOUT == "TIMEOUT"
SKIPPED == "SKIPPED"
TestStatus == {PASSED, FAILED, COMPILE_ERROR, RUNTIME_ERROR, TIMEOUT, SKIPPED}

\* Python's None for an Optional[str]: no sequence of characters equals it.
None == <<"None">>

\* Captured stdout of the simulator and of the reference executable: texts
\* as sequences of characters.
Outputs == { <<"5", "\n">>, <<"6", "\n">>, <<"5">> }
\* The texts of scenarios B and C alone.
FewOutputs == { <<"5", "\n">>, <<"6", "\n">> }
\* Every text of at most MaxTextLen characters out of a digit, a line feed
\* and a carriage return.
Chars == {"5", "\n", "\r"}
Texts == UNION { [1 .. n -> Chars] : n \in 0 .. MaxTextLen }

\* models.TestResult(status, message, actual_output, expected_output).
\* The message is kept by its kind.
TestResult(status, message, actual, expected) ==
    [status |-> status, message |-> message,
     actual_output |-> actual, expected_output |-> expected]

\* The value of a result slot no result has been written to.
NoResult == TestResult("none", "", None, None)

\* Case positions of a list of n cases, as enumerate() numbers them.
Cases == 0 .. (MaxCases - 1)
CasesOf(n) == 0 .. (n - 1)
\* Slot numbers: worker_id ranges over 0 .. max_workers-1.
Slots == 0 .. (MaxWorkers - 1)

\* A file of a slot directory is absent, or was written by a case of the
\* current call, or is left over from an earlier call.
Absent == -1
Stale == -2

VARIABLES
    lang,        \* compiler_config.language
    jar,         \* work_dir/Compiler.jar: "none" or the language whose build wrote it
    exe,         \* work_dir/Compiler.exe: "none" or the language whose build wrote it
    lastBuild,   \* what the latest compile_project of this tester returned
    is_running,  \* the caller's flag (TestTab.is_running): no stop was asked for
    launched,    \* the subprocess.run calls of the compile_project call under way and how each ended, in order
    diagnostic,  \* the message compile_project has returned, until the caller has taken it
    cmake_cache, \* cmake_build_<key>/CMakeCache.txt of the project: "none", or written by a configure that succeeded ("configured") or failed ("unconfigured")
    os_name,     \* os.name
    actual_text, \* a text handed to the comparator (actual)
    expected_text, \* the text it is compared with (expected)
    actual_norm, \* normalize_output(actual)
    expected_norm, \* normalize_output(expected)
    renormalized,\* normalize_output(actual_norm)
    equal,       \* what compare_outputs answered
    diff_lines,  \* _log_failure: numbers of the lines it found to differ
    shown,       \* _log_failure: numbers of the lines it has displayed
    task,        \* per run of the test tab: position of its test_task thread
    pending,     \* per run: cases whose result test_parallel has not yet handed to on_result
    posted,      \* every message put on TestTab.message_queue, in order
    handled,     \* how many of them process_queue has taken
    stop_btn,    \* the stop button is enabled
    messages,    \* AgentClient.messages: role, tool_use ids, tool_result ids
    _stop_flag,  \* AgentClient._stop_flag
    apc,         \* position of chat()
    tool_calls,  \* tool_use ids of the response chat() has not yet come to
    tool_results,\* tool_use ids chat() has a result for
    api_calls,   \* calls of _call_api so far
    chats,       \* calls of chat() so far
    current_testfile, \* SysYToolServer.current_testfile: None or the path
    current_input,    \* SysYToolServer.current_input: None or the path
    testfile_txt,     \* agent_work/testfile.txt: absent, or what wrote it
    input_txt,        \* agent_work/input.txt: absent, or what wrote it
    case_no,          \* test cases closed so far by a save or a discard
    generated,        \* generate_testfile has succeeded since the start or the last discard
    last,             \* the last tool call and what it did
    pc,          \* position of the calling thread
    mode,        \* which entry point the caller is in: "test" or "test_parallel"
    total,       \* len(cases)
    max_workers, \* max_workers of the call
    use_ramp_up, \* total >= ramp_up_threshold
    has_callback,\* callback is not None
    submitted,   \* number of tasks handed to executor.submit so far
    tpc,         \* per case: position of its run_test/test() call
    mars_out,    \* per case: local mars_out of test(), while test() runs
    res,         \* per case: the TestResult its test() returned
    invoked,     \* per case: the subprocess.run calls of its test() and how each ended, in order
    slotDir,     \* per slot: work_dir/worker_<id> exists
    mips,        \* per slot: who wrote worker_<id>/mips.txt
    tmp_src,     \* per slot: who wrote worker_<id>/tmp_test.c
    tmp_exe,     \* per slot: who wrote worker_<id>/tmp_test.exe
    finishOrder, \* the futures of the call that have completed, in the order they did
    initialDone, \* futures as_completed found finished when it was called, not yet yielded
    results,     \* the list `results` (cases; the result of case i is res[i])
    completed,   \* the counter `completed`
    cbs          \* calls of callback(case, result, progress), in order

build == <<launched, diagnostic, cmake_cache, os_name>>
texts == <<actual_text, expected_text, actual_norm, expected_norm, renormalized, equal,
           diff_lines, shown>>
gui == <<task, pending, posted, handled, stop_btn>>
agent == <<messages, _stop_flag, apc, tool_calls, tool_results, api_calls, chats>>
server == <<current_testfile, current_input, testfile_txt, input_txt,
            case_no, generated, last>>
others == <<gui, agent, server>>
session == <<lang, jar, exe, lastBuild, is_running, build, texts, others>>
call == <<pc, mode, total, max_workers, use_ramp_up, has_callback, submitted>>
tasks == <<tpc, mars_out, res, invoked>>
slots == <<slotDir, mips, tmp_src, tmp_exe>>
collect == <<finishOrder, initialDone, results, completed, cbs>>
vars == <<session, call, tasks, slots, collect>>

\* ---------------------------------------------------------- small helpers
Min(S) == CHOOSE x \in S : \A y \in S : x <= y

\* The elements of a sequence.
Range(s) == { s[j] : j \in 1 .. Len(s) }

\* TestTask(case, i % max_workers): the slot a case is bound to.
WorkerId(i) == i % max_workers

\* Positions of test() between its first and its last statement.
MidPipeline == {"compiler", "mars", "gcc", "gccrun", "finally"}
\* A finished future holds a result or an exception.
Done == {"finished", "raised"}

Running == { i \in Cases : tpc[i] \in MidPipeline }

\* ------------------------------------------------------------ comparator
\* utils.compare_outputs is imported by tester.py; it is modelled from the
\* specification of the comparator: line-ending style and trailing blank
\* lines are insignificant.
RECURSIVE DropCR(_)
DropCR(s) ==
    IF s = <<>> THEN <<>>
    ELSE IF Head(s) = "\r" THEN DropCR(Tail(s))
    ELSE <<Head(s)>> \o DropCR(Tail(s))

RECURSIVE DropTrailingNewlines(_)
DropTrailingNewlines(s) ==
    IF s = <<>> THEN <<>>
    ELSE IF s[Len(s)] = "\n" THEN DropTrailingNewlines(SubSeq(s, 1, Len(s) - 1))
    ELSE s

\* A normalisation that looks for trailing line feeds before it drops the
\* carriage returns.
NormalizeLineEndsLast(s) == DropCR(DropTrailingNewlines(s))

normalize(s) == DropTrailingNewlines(DropCR(s))

\* A comparison that normalises its first text only.
CompareAgainstRaw(a, b) == normalize(a) = b

compare_outputs(a, b) == normalize(a) = normalize(b)

\* ------------------------------------------------------------------ Init
NoTasks == [i \in Cases |-> "none"]
NoOutputs == [i \in Cases |-> None]
NoResults == [i \in Cases |-> NoResult]
NoInvocations == [i \in Cases |-> <<>>]

\* No build is under way, no CMake cache exists; nothing was handed to the
\* comparator on its own.
NoTexts ==
    /\ actual_text = None
    /\ expected_text = None
    /\ actual_norm = None
    /\ expected_norm = None
    /\ renormalized = None
    /\ equal = <<>>
    /\ diff_lines = <<>>
    /\ shown = <<>>

\* Runs of the test tab.
Runs == 1 .. MaxRuns

\* No run was started from the test tab.
NoGui ==
    /\ task = [r \in Runs |-> "none"]
    /\ pending = [r \in Runs |-> 0]
    /\ posted = <<>>
    /\ handled = 0
    /\ stop_btn = FALSE

\* An agent client as it is made: no history, no stop asked for.
NoAgent ==
    /\ messages = <<>>
    /\ _stop_flag = FALSE
    /\ apc = "idle"
    /\ tool_calls = <<>>
    /\ tool_results = <<>>
    /\ api_calls = 0
    /\ chats = 0

\* What is recorded of a tool call: the tool, whether it returned success,
\* whether it started a process, the files it wrote, the input it fed to
\* the simulator or stored (Absent: none), whether it changed the current
\* testfile, and the case and the generated flag it found.
NoCall ==
    [tool |-> "none", ok |-> FALSE, launched |-> FALSE, wrote |-> {},
     fed |-> Absent, stored |-> Absent, changed |-> FALSE,
     case |-> 0, generated |-> FALSE]

\* A tool server as it is made, in an empty work directory.
NoServer ==
    /\ current_testfile = None
    /\ current_input = None
    /\ testfile_txt = Absent
    /\ input_txt = Absent
    /\ case_no = 0
    /\ generated = FALSE
    /\ last = NoCall

\* Nothing outside the tester is under way.
NoOthers == NoGui /\ NoAgent /\ NoServer

NoBuild ==
    /\ launched = <<>>
    /\ diagnostic = [kind |-> "none", command |-> ""]
    /\ cmake_cache = "none"
    /\ os_name = "nt"

IdleCall ==
    /\ pc = "idle"
    /\ mode = "none"
    /\ total = 0
    /\ max_workers = 1
    /\ use_ramp_up = FALSE
    /\ has_callback = FALSE
    /\ submitted = 0
    /\ tpc = NoTasks
    /\ mars_out = NoOutputs
    /\ res = NoResults
    /\ invoked = NoInvocations
    /\ finishOrder = <<>>
    /\ initialDone = {}
    /\ results = <<>>
    /\ completed = 0
    /\ cbs = <<>>

\* A tester constructed on a test directory no build has written to yet.
SessionInit ==
    /\ lang \in Languages
    /\ jar = "none"
    /\ exe = "none"
    /\ lastBuild = "none"
    /\ is_running = TRUE
    /\ NoBuild
    /\ NoTexts
    /\ NoOthers
    /\ slotDir = [s \in Slots |-> FALSE]
    /\ mips = [s \in Slots |-> Absent]
    /\ tmp_src = [s \in Slots |-> Absent]
    /\ tmp_exe = [s \in Slots |-> Absent]
    /\ IdleCall

\* A tester of a Java project, before or after a successful build.
Init ==
    /\ lang = "java"
    /\ \/ jar = "none" /\ lastBuild = "none"
       \/ jar = "java" /\ lastBuild = "ok"
    /\ exe = "none"
    /\ is_running = TRUE
    /\ NoBuild
    /\ NoTexts
    /\ NoOthers
    /\ slotDir = [s \in Slots |-> FALSE]
    /\ mips = [s \in Slots |-> Absent]
    /\ tmp_src = [s \in Slots |-> Absent]
    /\ tmp_exe = [s \in Slots |-> Absent]
    /\ IdleCall

\* The files a slot directory can hold when a call begins.
SlotFiles == {"mips.txt", "tmp_test.c", "tmp_test.exe"}

\* A tester of a Java project whose slot directories hold files of earlier
\* runs (of a run that was killed before its clean-up, for the temporary
\* files of _run_gcc).
PipelineInit ==
    /\ lang = "java"
    /\ \/ jar = "none" /\ lastBuild = "none"
       \/ jar = "java" /\ lastBuild = "ok"
    /\ exe = "none"
    /\ is_running = TRUE
    /\ NoBuild
    /\ NoTexts
    /\ NoOthers
    /\ \E left \in SUBSET SlotFiles :
          /\ slotDir = [s \in Slots |-> left # {}]
          /\ mips = [s \in Slots |-> IF "mips.txt" \in left THEN Stale ELSE Absent]
          /\ tmp_src = [s \in Slots |-> IF "tmp_test.c" \in left THEN Stale ELSE Absent]
          /\ tmp_exe = [s \in Slots |-> IF "tmp_test.exe" \in left THEN Stale ELSE Absent]
    /\ IdleCall

\* ------------------------------------------------------- session actions
\* CompilerTester.__init__ / _load_compiler_config: the tester is made anew
\* for the same project (as _run_tests does before every run), or for a
\* project of another language on the same test directory (work_dir =
\* test_dir/.tmp is shared), which CMake has not configured. The language
\* comes from the project's config.json, the files stay.
NewTester(l) ==
    /\ pc = "idle"
    /\ lang' = l
    /\ lastBuild' = "none"
    /\ cmake_cache' = IF l = lang THEN cmake_cache ELSE "none"
    /\ UNCHANGED <<jar, exe, is_running, launched, diagnostic, os_name, texts, others,
                   call, tasks, slots, collect>>

\* The project and the tools as one compile_project call finds them: the
\* source directory exists, it holds sources of the language, a
\* CMakeLists.txt exists, the cmake command is found.
Projects ==
    [src_dir : BOOLEAN, sources : BOOLEAN, cmake_lists : BOOLEAN, cmake_exists : BOOLEAN]
\* Projects that have their sources and no CMakeLists.txt.
PlainProjects ==
    { p \in Projects : p.src_dir /\ p.sources /\ ~p.cmake_lists /\ p.cmake_exists }

\* How a subprocess.run of a build step ends: exit code 0, another exit
\* code, TimeoutExpired, FileNotFoundError (the command does not exist).
StepEvents == {"ok", "nonzero", "timeout", "missing"}
\* For the configure step, also a non-zero exit whose output says that no
\* C/C++ compiler was found.
ConfigureEvents == StepEvents \cup {"needs_compiler"}
\* Exit codes alone.
ExitEvents == {"ok", "nonzero"}

\* What a tool that writes its output file in place has done to the file
\* that was there when it fails: nothing yet, removed it (a failing link
\* step of gcc), left a part of the new one (a jar that writes the archive
\* directly).
GccEffects == {"kept", "removed"}
JarEffects == {"kept", "partial"}
InPlace(file, effect) ==
    CASE effect = "kept" -> file
      [] effect = "removed" -> "none"
      [] effect = "partial" -> "partial"

\* The message compile_project returns, by its kind, with the command it
\* names in "找不到命令: ...".
Diagnostic(kind, command) == [kind |-> kind, command |-> command]
NoDiagnostic == Diagnostic("none", "")

\* e.filename of the FileNotFoundError subprocess.run raises: the command
\* on POSIX, None on Windows (CreateProcess reports no file name).
Filename(command) == IF os_name = "nt" THEN "None" ELSE command

\* `e.filename if e.filename else cmake` of the CMake path.
FilenameOr(command) == IF Filename(command) = "None" THEN command ELSE Filename(command)

\* The except clauses and the non-zero exit of a step: the message for an
\* event that is not a success; `named` is what the message calls the
\* missing command.
ToolError(ev, named) ==
    CASE ev = "timeout" -> Diagnostic("timeout", "")
      [] ev = "missing" -> Diagnostic("missing", named)
      [] OTHER -> Diagnostic("failed", "")

\* compile_project returns (False, message) / (True, message).
BuildFails(d) ==
    /\ pc' = "built"
    /\ lastBuild' = "failed"
    /\ diagnostic' = d

BuildSucceeds ==
    /\ pc' = "built"
    /\ lastBuild' = "ok"
    /\ diagnostic' = Diagnostic("success", "")

\* The build goes on to its next subprocess.run.
Launch(step) ==
    /\ pc' = step
    /\ lastBuild' = lastBuild
    /\ diagnostic' = diagnostic

\* subprocess.run(cmd, ...) of a build step and how it ended.
Ran(step, ev) == launched' = Append(launched, [step |-> step, outcome |-> ev])

\* compile_java_project up to its first subprocess.run.
compile_java_project(p) ==
    /\ IF ~p.src_dir THEN BuildFails(Diagnostic("no_src_dir", ""))
       ELSE IF ~p.sources THEN BuildFails(Diagnostic("no_sources", ""))
       ELSE Launch("javac")
    /\ UNCHANGED cmake_cache

\* A build that configures whatever the build directory holds.
AlwaysConfigure == TRUE

\* `if not cache_path.exists()`: the build directory of the project holds
\* no CMakeCache.txt.
NeedsConfigure == cmake_cache = "none"

\* compile_c_cpp_project up to its first subprocess.run: the CMake path
\* when a CMakeLists.txt exists, one compiler call otherwise.
compile_c_cpp_project(p) ==
    /\ IF ~p.src_dir THEN BuildFails(Diagnostic("no_src_dir", ""))
       ELSE IF p.cmake_lists
              THEN IF ~p.cmake_exists THEN BuildFails(Diagnostic("missing", "cmake"))
                   ELSE IF NeedsConfigure THEN Launch("configure")
                   ELSE Launch("cmake_build")
       ELSE IF ~p.sources THEN BuildFails(Diagnostic("no_sources", ""))
       ELSE Launch("gcc_build")
    /\ UNCHANGED cmake_cache

\* A dispatch that takes every language for a C/C++ one.
AnyLanguage == Languages

\* `lang not in SUPPORTED_LANGUAGES` of compile_project.
Supported == SUPPORTED_LANGUAGES

compile_project(projects) ==
    /\ pc = "idle"
    /\ IF lang \notin Supported
         THEN /\ BuildFails(Diagnostic("unsupported_language", ""))
              /\ UNCHANGED cmake_cache
         ELSE \E p \in projects :
                IF lang = "java" THEN compile_java_project(p)
                                 ELSE compile_c_cpp_project(p)
    /\ UNCHANGED <<lang, jar, exe, is_running, launched, os_name, texts, others,
                   mode, total, max_workers, use_ramp_up, has_callback, submitted,
                   tasks, slots, collect>>

\* What a build step leaves alone besides the artifacts and the cache.
BuildStepFrame ==
    UNCHANGED <<lang, is_running, os_name, texts, others,
                mode, total, max_workers, use_ramp_up, has_callback, submitted,
                tasks, slots, collect>>

\* A Java build that packs whatever javac did.
JavacIgnored(ev) == TRUE

\* `if result.returncode != 0: return False, ...` and the except clauses
\* around javac: only exit code 0 lets the build go on.
JavacPassed(ev) == ev = "ok"

\* javac ... -d build_dir, then MANIFEST.MF is written.
_javac(ev) ==
    /\ pc = "javac"
    /\ Ran("javac", ev)
    /\ IF JavacPassed(ev) THEN Launch("jar")
       ELSE BuildFails(ToolError(ev, Filename("javac")))
    /\ UNCHANGED <<jar, exe, cmake_cache>>
    /\ BuildStepFrame

\* jar cfm work_dir/Compiler.jar ...: the archiver writes the artifact itself.
_jar(ev, effect) ==
    /\ pc = "jar"
    /\ Ran("jar", ev)
    /\ IF ev = "ok"
         THEN jar' = "java" /\ BuildSucceeds
         ELSE /\ jar' = IF ev = "nonzero" THEN InPlace(jar, effect) ELSE jar
              /\ BuildFails(ToolError(ev, Filename("jar")))
    /\ UNCHANGED <<exe, cmake_cache>>
    /\ BuildStepFrame

\* A build that configures again after any failed configure.
RetryOnAnyFailure(ev) == TRUE

\* `if os.name == "nt" and needs_compiler`: on Windows, a configure whose
\* output says that no C/C++ compiler was found is tried again with another
\* generator.
ShouldRetry(ev) == os_name = "nt" /\ ev = "needs_compiler"

\* What can stand in the way of the retry: the fallback compiler is not
\* found (cxx_ok), neither ninja nor make is found (retry_generator).
Fallbacks == {"no_cxx", "no_generator", "ready"}

\* CMakeCache.txt after a configure that exited non-zero: cmake may have
\* written it all the same.
CacheAfterFailure(ev, cache_left) ==
    IF ev \in {"nonzero", "needs_compiler"} /\ cache_left THEN "unconfigured"
    ELSE cmake_cache

\* cmake -S ... -B build_dir, run when the build directory has no cache.
_cmake_configure(ev, cache_left, fallback) ==
    /\ pc = "configure"
    /\ Ran("configure", ev)
    /\ IF ev = "ok"
         THEN cmake_cache' = "configured" /\ Launch("cmake_build")
       ELSE IF ev \in {"timeout", "missing"}
         THEN /\ cmake_cache' = cmake_cache
              /\ BuildFails(ToolError(ev, FilenameOr("cmake")))
       ELSE IF ~ShouldRetry(ev)
         THEN /\ cmake_cache' = CacheAfterFailure(ev, cache_left)
              /\ BuildFails(Diagnostic("failed", ""))
       ELSE IF fallback = "no_cxx"
         THEN /\ cmake_cache' = CacheAfterFailure(ev, cache_left)
              /\ BuildFails(Diagnostic("no_compiler", ""))
       ELSE IF fallback = "no_generator"
         THEN /\ cmake_cache' = CacheAfterFailure(ev, cache_left)
              /\ BuildFails(Diagnostic("no_generator", ""))
       ELSE cmake_cache' = "none" /\ Launch("retry_configure")
    /\ UNCHANGED <<jar, exe>>
    /\ BuildStepFrame

\* The second configure, in the emptied build directory.
_cmake_retry_configure(ev, cache_left) ==
    /\ pc = "retry_configure"
    /\ Ran("retry_configure", ev)
    /\ IF ev = "ok"
         THEN cmake_cache' = "configured" /\ Launch("cmake_build")
         ELSE /\ cmake_cache' = CacheAfterFailure(ev, cache_left)
              /\ BuildFails(ToolError(ev, FilenameOr("cmake")))
    /\ UNCHANGED <<jar, exe>>
    /\ BuildStepFrame

\* cmake --build build_dir; the executable it made is copied to
\* work_dir/Compiler.exe. A build directory whose configure failed does
\* not build.
_cmake_build(ev, exes) ==
    /\ pc = "cmake_build"
    /\ cmake_cache = "unconfigured" => ev # "ok"
    /\ Ran("cmake_build", ev)
    /\ IF ev = "ok" /\ exes
         THEN exe' = lang /\ BuildSucceeds
         ELSE /\ exe' = exe
              /\ IF ev = "ok" THEN BuildFails(Diagnostic("no_exe", ""))
                 ELSE BuildFails(ToolError(ev, FilenameOr("cmake")))
    /\ UNCHANGED <<jar, cmake_cache>>
    /\ BuildStepFrame

\* gcc -o work_dir/Compiler.exe sources: the compiler writes the artifact
\* itself.
_gcc_build(ev, effect) ==
    /\ pc = "gcc_build"
    /\ Ran("gcc_build", ev)
    /\ IF ev = "ok"
         THEN exe' = lang /\ BuildSucceeds
         ELSE /\ exe' = IF ev = "nonzero" THEN InPlace(exe, effect) ELSE exe
              /\ BuildFails(ToolError(ev, Filename("gcc")))
    /\ UNCHANGED <<jar, cmake_cache>>
    /\ BuildStepFrame

\* The command a build step runs.
Command(step) ==
    CASE step = "javac" -> "javac"
      [] step = "jar" -> "jar"
      [] step = "gcc_build" -> "gcc"
      [] OTHER -> "cmake"

\* The subprocess.run calls of a build, for the given behaviours of the
\* tools.
BuildSteps(events, configureEvents, jarEffects, gccEffects) ==
    \/ \E ev \in events : _javac(ev)
    \/ \E ev \in events, effect \in jarEffects : _jar(ev, effect)
    \/ \E ev \in configureEvents, cache_left \in BOOLEAN, fallback \in Fallbacks :
          _cmake_configure(ev, cache_left, fallback)
    \/ \E ev \in events, cache_left \in BOOLEAN : _cmake_retry_configure(ev, cache_left)
    \/ \E ev \in events, exes \in BOOLEAN : _cmake_build(ev, exes)
    \/ \E ev \in events, effect \in gccEffects : _gcc_build(ev, effect)

\* The builds of projects without a CMakeLists.txt.
PlainBuildSteps ==
    \/ \E ev \in ExitEvents : _javac(ev)
    \/ \E ev \in ExitEvents : _jar(ev, "kept")
    \/ \E ev \in ExitEvents, effect \in GccEffects : _gcc_build(ev, effect)

\* The artifact file the configured language selects: Compiler.jar for
\* java, Compiler.exe for everything else.
ArtifactFile == IF lang = "java" THEN jar ELSE exe

\* A readiness check that takes the project for built.
AlwaysReady == TRUE

\* _is_compiler_ready: the artifact file of the configured language exists.
_is_compiler_ready == ArtifactFile # "none"

\* ------------------------------------------------------------ the calls
Skip(message) == TestResult(SKIPPED, message, None, None)

\* test_parallel(cases, max_workers, callback, ramp_up_threshold) up to the
\* creation of the pool: without a ready compiler every case is returned as
\* skipped at once.
test_parallel(n, k, cb, ramp_up_threshold) ==
    /\ pc = "idle"
    /\ mode' = "test_parallel"
    /\ total' = n
    /\ max_workers' = k
    /\ has_callback' = cb
    /\ use_ramp_up' = (n >= ramp_up_threshold)
    /\ submitted' = 0
    /\ IF ~_is_compiler_ready
         THEN /\ pc' = "returned"
              /\ results' = [j \in 1 .. n |-> j - 1]
              /\ res' = [i \in Cases |->
                           IF i < n THEN Skip("not_compiled") ELSE NoResult]
              /\ tpc' = NoTasks
         ELSE /\ pc' = "submit"
              /\ results' = <<>>
              /\ res' = NoResults
              /\ tpc' = [i \in Cases |-> IF i < n THEN "created" ELSE "none"]
    /\ UNCHANGED <<session, mars_out, invoked, slots,
                   finishOrder, initialDone, completed, cbs>>

\* A direct call test(testfile, input_file, worker_id = 0) on the caller's
\* thread.
test ==
    /\ pc = "idle"
    /\ mode' = "test"
    /\ total' = 1
    /\ max_workers' = 1
    /\ pc' = "in_test"
    /\ tpc' = [NoTasks EXCEPT ![0] = "queued"]
    /\ UNCHANGED <<session, use_ramp_up, has_callback, submitted, mars_out, res,
                   invoked, slots, collect>>

\* ------------------------------------------------------------- the pool
\* A ramp-up that sleeps after the last submission as well.
SleepsAfterEvery == IF use_ramp_up THEN "sleep" ELSE "submit"

\* Where the submitting thread goes after submitting task number
\* `submitted`: `if i < total - 1: time.sleep(interval)` in ramp-up mode,
\* the next submission otherwise.
AfterSubmit == IF use_ramp_up /\ submitted < total - 1 THEN "sleep" ELSE "submit"

\* executor.submit(run_test, task), in list order; in ramp-up mode the
\* submitting thread sleeps after every submission but the last.
Submit ==
    /\ pc = "submit"
    /\ submitted < total
    /\ tpc' = [tpc EXCEPT ![submitted] = "queued"]
    /\ submitted' = submitted + 1
    /\ pc' = AfterSubmit
    /\ UNCHANGED <<session, mode, total, max_workers, use_ramp_up, has_callback,
                   mars_out, res, invoked, slots, collect>>

\* time.sleep(interval) returns.
Sleep ==
    /\ pc = "sleep"
    /\ pc' = "submit"
    /\ UNCHANGED <<session, mode, total, max_workers, use_ramp_up, has_callback,
                   submitted, tasks, slots, collect>>

\* A loop over as_completed that starts while tasks are still to be submitted.
CollectsWhileSubmitting == TRUE

\* The submission loop (or the dict comprehension) of test_parallel has
\* ended: every task was handed to executor.submit.
AllSubmitted == submitted = total

\* as_completed(futures) is entered once every task is submitted: it first
\* notes the futures that are finished already.
AsCompleted ==
    /\ pc = "submit"
    /\ AllSubmitted
    /\ pc' = "collect"
    /\ initialDone' = { i \in Cases : tpc[i] \in Done }
    /\ UNCHANGED <<session, mode, total, max_workers, use_ramp_up, has_callback,
                   submitted, tasks, slots, finishOrder, results, completed, cbs>>

\* A pool that starts a thread for every submitted task.
NoThreadLimit == TRUE

\* ThreadPoolExecutor(max_workers): a queued work item is taken, oldest
\* first, by a thread of the pool that runs nothing; the pool never has
\* more than max_workers threads.
PoolHasIdleThread == Cardinality(Running) < max_workers

OldestQueued(i) == i = Min({ j \in Cases : tpc[j] = "queued" })

\* A future completes: it is the latest of the finished futures (a waiter
\* of as_completed is told of completions in this order).
Notify(i) == Append(finishOrder, i)

\* The future of case i completes with a result, or with an exception.
Finished(i, r) ==
    /\ tpc' = [tpc EXCEPT ![i] = "finished"]
    /\ res' = [res EXCEPT ![i] = r]
    /\ finishOrder' = Notify(i)

Raised(i) ==
    /\ tpc' = [tpc EXCEPT ![i] = "raised"]
    /\ res' = res
    /\ finishOrder' = Notify(i)

Advance(i, to) ==
    /\ tpc' = [tpc EXCEPT ![i] = to]
    /\ res' = res
    /\ finishOrder' = finishOrder

\* The try block of _run_gcc has ended: what test() will make of its answer
\* is settled, the finally block is under way.
Returning(i, r) ==
    /\ tpc' = [tpc EXCEPT ![i] = "finally"]
    /\ res' = [res EXCEPT ![i] = r]
    /\ finishOrder' = finishOrder

\* subprocess.run(cmd, ...) of a stage, how the call ended and the stdout it
\* captured (None when the stage's stdout is not used).
Invoke(i, stage, outcome, out) ==
    invoked' = [invoked EXCEPT ![i] =
                   Append(@, [stage |-> stage, outcome |-> outcome, out |-> out])]

Ended(i, outcome) ==
    invoked' = [invoked EXCEPT ![i] = [@ EXCEPT ![Len(@)].outcome = outcome]]

Stages(i) == [j \in 1 .. Len(invoked[i]) |-> invoked[i][j].stage]

\* A test() that takes up any stage whatever the one it has reached.
AtAnyStage(i, stage) == tpc[i] \in MidPipeline

\* test() runs its stages one after the other: case i has reached `stage`.
AtStage(i, stage) == tpc[i] = stage

\* ------------------------------------------------------------ test()
\* A clean-up that leaves the file where it is.
LeftBehind(files, s) == files

\* `if f.exists(): f.unlink()` on a file of slot s. (_run_gcc ignores a
\* removal that fails; removals are taken to succeed.)
Unlinked(files, s) == [files EXCEPT ![s] = Absent]

\* What can happen between the entry of test() and the launch of the
\* candidate compiler: the test file is missing, the slot directory cannot
\* be made, testfile.txt cannot be written, the compiler cannot be started.
BeginEvents == {"no_testfile", "mkdir_error", "write_error", "launch_error", "launched"}

\* run_test(task) -> test(): the checks of test(), _get_worker_dir, and
\* _run_compiler up to subprocess.run: testfile.txt is written, an old
\* mips.txt is removed, the candidate compiler is started in the slot.
run_test(i, ev) ==
    /\ tpc[i] = "queued"
    /\ OldestQueued(i)
    /\ PoolHasIdleThread
    /\ LET s == WorkerId(i) IN
       IF ev = "no_testfile"
         THEN Finished(i, Skip("no_testfile")) /\ UNCHANGED <<invoked, slots>>
       ELSE IF ~_is_compiler_ready
         THEN Finished(i, Skip("not_compiled")) /\ UNCHANGED <<invoked, slots>>
       ELSE IF ev = "mkdir_error"
         THEN Raised(i) /\ UNCHANGED <<invoked, slots>>
       ELSE IF ev = "write_error"
         THEN /\ Raised(i)
              /\ slotDir' = [slotDir EXCEPT ![s] = TRUE]
              /\ UNCHANGED <<invoked, mips, tmp_src, tmp_exe>>
       ELSE /\ slotDir' = [slotDir EXCEPT ![s] = TRUE]
            /\ mips' = Unlinked(mips, s)
            /\ UNCHANGED <<tmp_src, tmp_exe>>
            /\ IF ev = "launch_error"
                 THEN /\ Invoke(i, "compiler", "launch_error", None)
                      /\ Finished(i, TestResult(COMPILE_ERROR, "exception", None, None))
                 ELSE /\ Invoke(i, "compiler", "running", None)
                      /\ Advance(i, "compiler")
    /\ UNCHANGED <<session, call, mars_out, initialDone, results, completed, cbs>>

\* How the candidate compiler's process ends.
CompilerExits == {"timeout", "nonzero", "exit0"}

\* The (success, msg) of _run_compiler once subprocess.run has returned:
\* the timeout, the exit code, then mips_path.exists().
CompilerVerdict(ev, mips_exists) ==
    IF ev = "timeout" THEN "compile_timeout"
    ELSE IF ev = "nonzero" THEN "compiler_error"
    ELSE IF ~mips_exists THEN "no_mips"
    ELSE "ok"

\* A test() that reports the candidate's timeout with the status TIMEOUT.
CompileFailureAsTimeout(msg) ==
    TestResult(IF msg = "compile_timeout" THEN TIMEOUT ELSE COMPILE_ERROR, msg, None, None)

\* `if not success: return TestResult(TestStatus.COMPILE_ERROR, msg)`.
CompileFailure(msg) == TestResult(COMPILE_ERROR, msg, None, None)

\* _run_compiler from the return of subprocess.run, and test()'s check of
\* its answer. The process may have written mips.txt into the slot.
_run_compiler(i, ev, wrote) ==
    /\ AtStage(i, "compiler")
    /\ LET s == WorkerId(i)
           after == IF wrote THEN [mips EXCEPT ![s] = i] ELSE mips
           msg == CompilerVerdict(ev, after[s] # Absent)
       IN /\ mips' = after
          /\ Ended(i, IF ev = "exit0" /\ ~wrote THEN "exit0_nomips" ELSE ev)
          /\ IF msg # "ok"
               THEN Finished(i, CompileFailure(msg))
               ELSE Advance(i, "mars")
    /\ UNCHANGED <<session, call, mars_out, slotDir, tmp_src, tmp_exe,
                   initialDone, results, completed, cbs>>

\* How the simulator's process ends: it cannot be started, it runs into the
\* timeout, or it exits (with any code) and its stdout is taken.
MarsEvents == {"launch_error", "timeout", "exited"}

\* The ways a process ends by itself: "exited" with exit code 0 (or with
\* any code, where the code is left open), "exited_nonzero" with another
\* code.
Exited == {"exited", "exited_nonzero"}
\* The simulator's and the reference executable's ends with their exit codes.
MarsExits == MarsEvents \cup Exited
RefExits == {"timeout"} \cup Exited

\* A _run_mars that takes a non-zero exit code of the simulator for a failure.
MarsAnswerChecksExit(ev, out) ==
    IF ev = "timeout" THEN [out |-> None, err |-> "mars_timeout"]
    ELSE IF ev \in {"launch_error", "exited_nonzero"} THEN [out |-> None, err |-> "exception"]
    ELSE [out |-> out, err |-> ""]

\* A _run_mars that hands back the (empty) captured output on a timeout.
MarsAnswerOnTimeout(ev, out) ==
    IF ev = "timeout" THEN [out |-> <<>>, err |-> "mars_timeout"]
    ELSE IF ev = "launch_error" THEN [out |-> None, err |-> "exception"]
    ELSE [out |-> out, err |-> ""]

\* The (stdout, err) of _run_mars.
MarsAnswer(ev, out) ==
    IF ev = "timeout" THEN [out |-> None, err |-> "mars_timeout"]
    ELSE IF ev = "launch_error" THEN [out |-> None, err |-> "exception"]
    ELSE [out |-> out, err |-> ""]

\* _run_mars on the slot's mips.txt, and test()'s check of its answer.
_run_mars(i, ev, out) ==
    /\ AtStage(i, "mars")
    /\ LET a == MarsAnswer(ev, out) IN
       /\ Invoke(i, "mars", ev, a.out)
       /\ IF a.out = None
            THEN /\ Finished(i, TestResult(RUNTIME_ERROR, a.err, None, None))
                 /\ mars_out' = mars_out
            ELSE /\ Advance(i, "gcc")
                 /\ mars_out' = [mars_out EXCEPT ![i] = a.out]
    /\ UNCHANGED <<session, call, slots, initialDone, results, completed, cbs>>

\* How the reference compilation of _run_gcc ends: tmp_test.c cannot be
\* written, gcc is not found, it times out, it exits non-zero, another
\* error is raised, or the executable is there.
GccCompileEvents == {"write_error", "missing", "timeout", "nonzero", "error", "ok"}

\* The message _run_gcc returns with None for each way its try block ends.
GccError(ev) ==
    IF ev = "timeout" THEN "gcc_timeout"
    ELSE IF ev = "missing" THEN "gcc_missing"
    ELSE IF ev = "nonzero" THEN "gcc_compile_failed"
    ELSE "exception"

\* _run_gcc up to its first subprocess.run: tmp_test.c is written and the
\* reference compiler makes tmp_test.exe from it. When the try block ends
\* here, the finally block begins: it removes tmp_test.c first.
_run_gcc_compile(i, ev) ==
    /\ AtStage(i, "gcc")
    /\ IF ev = "write_error"
         THEN invoked' = invoked /\ Returning(i, Skip(GccError(ev)))
         ELSE /\ Invoke(i, "gcc", ev, None)
              /\ IF ev = "ok" THEN Advance(i, "gccrun")
                              ELSE Returning(i, Skip(GccError(ev)))
    /\ LET s == WorkerId(i) IN
       IF ev = "ok"
         THEN /\ tmp_src' = [tmp_src EXCEPT ![s] = i]
              /\ tmp_exe' = [tmp_exe EXCEPT ![s] = i]
         ELSE /\ tmp_src' = Unlinked(tmp_src, s)
              /\ tmp_exe' = tmp_exe
    /\ mars_out' = IF ev = "ok" THEN mars_out ELSE [mars_out EXCEPT ![i] = None]
    /\ UNCHANGED <<session, call, slotDir, mips,
                   initialDone, results, completed, cbs>>

\* How the reference executable's process ends.
GccRunEvents == {"timeout", "missing", "error", "exited"}

\* A verdict that attaches the two outputs to every result.
VerdictKeepsOutputs(actual, expected) ==
    IF compare_outputs(actual, expected)
      THEN TestResult(PASSED, "", actual, expected)
      ELSE TestResult(FAILED, "mismatch", actual, expected)

\* A verdict that compares the two outputs as they are.
VerdictByRawEquality(actual, expected) ==
    IF actual = expected
      THEN TestResult(PASSED, "", None, None)
      ELSE TestResult(FAILED, "mismatch", actual, expected)

\* Step 4 of test(): the comparison and the result it builds.
Verdict(actual, expected) ==
    IF compare_outputs(actual, expected)
      THEN TestResult(PASSED, "", None, None)
      ELSE TestResult(FAILED, "mismatch", actual, expected)

\* A _run_gcc that hands back the (empty) captured output when the
\* reference executable runs into its timeout.
RefAnswerOnTimeout(ev, out) ==
    IF ev \in Exited THEN [out |-> out, err |-> ""]
    ELSE IF ev = "timeout" THEN [out |-> <<>>, err |-> GccError(ev)]
    ELSE [out |-> None, err |-> GccError(ev)]

\* The (stdout, err) of _run_gcc once the reference executable was started:
\* its stdout whatever its exit code, None when the run did not end.
RefAnswer(ev, out) ==
    IF ev \in Exited THEN [out |-> out, err |-> ""]
    ELSE [out |-> None, err |-> GccError(ev)]

\* _run_gcc, second subprocess.run: the reference executable (not found
\* when tmp_test.exe is no longer in the slot), test()'s check of the
\* answer and its comparison, and the first half of the finally block.
_run_gcc_run(i, ev, gcc_out) ==
    /\ AtStage(i, "gccrun")
    /\ LET s == WorkerId(i)
           how == IF tmp_exe[s] = Absent THEN "missing" ELSE ev
           a == RefAnswer(how, gcc_out)
       IN /\ Invoke(i, "ref", how, a.out)
          /\ IF a.out = None
               THEN Returning(i, Skip(a.err))
               ELSE Returning(i, Verdict(mars_out[i], a.out))
          /\ tmp_src' = Unlinked(tmp_src, s)
          /\ tmp_exe' = tmp_exe
    /\ mars_out' = [mars_out EXCEPT ![i] = None]
    /\ UNCHANGED <<session, call, slotDir, mips,
                   initialDone, results, completed, cbs>>

\* The rest of the finally block of _run_gcc: tmp_test.exe is removed;
\* _run_gcc returns, and test() returns the result.
_run_gcc_finally(i) ==
    /\ AtStage(i, "finally")
    /\ tmp_exe' = Unlinked(tmp_exe, WorkerId(i))
    /\ Finished(i, res[i])
    /\ UNCHANGED <<session, call, mars_out, invoked, slotDir, mips, tmp_src,
                   initialDone, results, completed, cbs>>

\* ------------------------------------------------------------ collecting
\* completed / total * 100, kept as the exact fraction.
Progress(c, t) == [num |-> c * 100, den |-> t]

Collected == Range(results)

\* The finished futures as_completed has not handed out, oldest first.
NotYielded == SelectSeq(finishOrder, LAMBDA j : j \notin Collected)

\* An as_completed that does not take a future off its list when it hands
\* it out.
YieldsAgain ==
    IF initialDone # {} THEN initialDone
    ELSE IF finishOrder = <<>> THEN {} ELSE {Head(finishOrder)}

\* The futures as_completed may yield next: those found finished when it
\* was called, in any order (they are kept in a set); then the others in
\* the order they complete.
Yieldable ==
    IF initialDone # {} THEN initialDone
    ELSE IF NotYielded = <<>> THEN {} ELSE {Head(NotYielded)}

\* One round of `for future in as_completed(futures)`: future.result()
\* re-raises the task's exception, else the result is appended, counted and
\* handed to the callback.
Collect(i) ==
    /\ pc = "collect"
    /\ i \in Yieldable
    /\ IF tpc[i] = "raised"
         THEN /\ pc' = "unwind"
              /\ UNCHANGED <<results, completed, cbs>>
         ELSE /\ pc' = pc
              /\ results' = Append(results, i)
              /\ completed' = completed + 1
              /\ cbs' = IF has_callback
                          THEN Append(cbs, [case |-> i, result |-> res[i],
                                            progress |-> Progress(completed + 1, total)])
                          ELSE cbs
    /\ initialDone' = initialDone \ {i}
    /\ UNCHANGED <<session, mode, total, max_workers, use_ramp_up, has_callback,
                   submitted, tasks, slots, finishOrder>>

\* An executor that is left without waiting for its tasks.
ShutdownNoWait == TRUE

\* executor.shutdown(wait=True), which leaving the with block calls, and
\* the end of as_completed: every submitted task has run to its end.
AllTasksDone == \A i \in CasesOf(total) : tpc[i] \in Done

\* as_completed is exhausted: every future is finished and was handed out;
\* leaving the with block finds every task done.
Return ==
    /\ pc = "collect"
    /\ AllTasksDone
    /\ Yieldable = {}
    /\ pc' = "returned"
    /\ UNCHANGED <<session, mode, total, max_workers, use_ramp_up, has_callback,
                   submitted, tasks, slots, collect>>

\* An exception leaves the with block: executor.shutdown(wait=True) lets
\* every submitted task run to its end, then the exception reaches the caller.
Unwind ==
    /\ pc = "unwind"
    /\ AllTasksDone
    /\ pc' = "raised"
    /\ UNCHANGED <<session, mode, total, max_workers, use_ramp_up, has_callback,
                   submitted, tasks, slots, collect>>

\* The direct test() call returns its result, or raises.
TestReturn ==
    /\ pc = "in_test"
    /\ tpc[0] \in Done
    /\ pc' = IF tpc[0] = "finished" THEN "returned" ELSE "raised"
    /\ results' = IF tpc[0] = "finished" THEN <<0>> ELSE <<>>
    /\ UNCHANGED <<session, mode, total, max_workers, use_ramp_up, has_callback,
                   submitted, tasks, slots, finishOrder, initialDone, completed, cbs>>

\* The files of the slots once their writers are gone.
LeftOver(files) == [s \in Slots |-> IF files[s] = Absent THEN Absent ELSE Stale]

\* The caller has its answer and is free to call again (_run_tests sets
\* its flag anew); the slot directories keep their files.
CallerContinues ==
    /\ pc \in {"returned", "raised", "built"}
    /\ launched' = <<>>
    /\ diagnostic' = NoDiagnostic
    /\ pc' = "idle"
    /\ mode' = "none"
    /\ total' = 0
    /\ max_workers' = 1
    /\ use_ramp_up' = FALSE
    /\ has_callback' = FALSE
    /\ submitted' = 0
    /\ tpc' = NoTasks
    /\ mars_out' = NoOutputs
    /\ res' = NoResults
    /\ invoked' = NoInvocations
    /\ finishOrder' = <<>>
    /\ initialDone' = {}
    /\ results' = <<>>
    /\ completed' = 0
    /\ cbs' = <<>>
    /\ mips' = LeftOver(mips)
    /\ tmp_src' = LeftOver(tmp_src)
    /\ tmp_exe' = LeftOver(tmp_exe)
    /\ is_running' = TRUE
    /\ UNCHANGED <<lang, jar, exe, lastBuild, cmake_cache, os_name, texts, others, slotDir>>

\* TestTab._stop_test, while the test_parallel call of TestTab._run_tests is
\* under way: the flag is cleared, and nothing else is done.
_stop_test ==
    /\ mode = "test_parallel"
    /\ pc \in {"submit", "sleep", "collect", "unwind"}
    /\ is_running
    /\ is_running' = FALSE
    /\ UNCHANGED <<lang, jar, exe, lastBuild, build, texts, others, call, tasks, slots, collect>>

\* ------------------------------------------------------- specifications
\* The steps of the cases' test() calls, for the given behaviours of the
\* file system and of the external tools.
Pipeline(begin, exits, marsEv, marsOuts, gccEv, refEv, refOuts) ==
    \E i \in Cases :
        \/ \E ev \in begin : run_test(i, ev)
        \/ \E ev \in exits, wrote \in BOOLEAN : _run_compiler(i, ev, wrote)
        \/ \E ev \in marsEv, out \in marsOuts : _run_mars(i, ev, out)
        \/ \E ev \in gccEv : _run_gcc_compile(i, ev)
        \/ \E ev \in refEv, out \in refOuts : _run_gcc_run(i, ev, out)
        \/ _run_gcc_finally(i)

\* ramp_up_threshold: the default of test_parallel, which no modelled list
\* reaches, and values that put lists of the modelled lengths on either
\* side of the threshold.
DefaultRampUpThreshold == 64
SmallRampUpThreshold == 2
RampUpThresholds == {SmallRampUpThreshold, SmallRampUpThreshold + 1}

\* The steps of a test_parallel call after its first statement.
Scheduler ==
    \/ Submit
    \/ AsCompleted
    \/ \E i \in Cases : Collect(i)
    \/ Return
    \/ Unwind

\* The steps of the cases when each stage either succeeds or fails in one
\* way: the slot directory cannot be made, the compiler writes mips.txt or
\* does not, the simulator times out or prints "5\n", the reference does
\* not compile or prints "5\n" or "6\n" (scenarios B and C).
FewFailures ==
    Pipeline({"mkdir_error", "launched"}, {"exit0"}, {"timeout", "exited"},
             {<<"5", "\n">>}, {"nonzero", "ok"}, {"exited"}, FewOutputs)

\* The scheduler: one test_parallel call of a tester of a Java project, with
\* a callback, on lists that take the ramp-up path and lists that do not.
Next ==
    \/ \E n \in 0 .. MaxCases, k \in 1 .. MaxWorkers, th \in RampUpThresholds :
          test_parallel(n, k, TRUE, th)
    \/ Scheduler
    \/ Sleep
    \/ FewFailures

Spec == Init /\ [][Next]_vars

\* The scheduler with the progress its threads make: the calling thread
\* goes on submitting, sleeping (time.sleep returns) and collecting; a pool
\* thread that can take or continue a case does so, every external process
\* ending by itself or at the timeout of its subprocess.run.
LiveSpec ==
    /\ Spec
    /\ WF_vars(Scheduler)
    /\ WF_vars(Sleep)
    /\ WF_vars(FewFailures)

\* A session: builds, testers of other projects on the same test
\* directory, and calls of test and test_parallel one after another.
SessionNext ==
    \/ \E l \in Languages : NewTester(l)
    \/ compile_project(PlainProjects)
    \/ PlainBuildSteps
    \/ test
    \/ \E n \in 0 .. MaxSessionCases, k \in 1 .. MaxWorkers, cb \in BOOLEAN :
          test_parallel(n, k, cb, DefaultRampUpThreshold)
    \/ Scheduler
    \/ FewFailures
    \/ TestReturn
    \/ CallerContinues
    \/ _stop_test

SessionSpec == SessionInit /\ [][SessionNext]_vars

\* The pipeline: calls of test, or of test_parallel on a short list, one
\* after another, with every behaviour of the file system and of the
\* external tools.
PipelineNext ==
    \/ test
    \/ \E n \in 0 .. MaxPipelineCases, k \in 1 .. MaxWorkers :
          test_parallel(n, k, TRUE, DefaultRampUpThreshold)
    \/ Scheduler
    \/ Pipeline(BeginEvents, CompilerExits, MarsEvents, Outputs,
                GccCompileEvents, GccRunEvents, FewOutputs)
    \/ TestReturn
    \/ CallerContinues

PipelineSpec == PipelineInit /\ [][PipelineNext]_vars

\* The pipeline with the exit codes of its four processes: each process
\* exits with code 0 or with another code (the simulator and the reference
\* executable may also time out, the slot directory may fail to be made).
ExitCodeNext ==
    \/ test
    \/ \E n \in 0 .. MaxPipelineCases, k \in 1 .. MaxWorkers :
          test_parallel(n, k, TRUE, DefaultRampUpThreshold)
    \/ Scheduler
    \/ Pipeline({"mkdir_error", "launched"}, {"nonzero", "exit0"}, MarsExits,
                FewOutputs, {"nonzero", "ok"}, RefExits, FewOutputs)
    \/ TestReturn
    \/ CallerContinues

ExitCodeSpec == PipelineInit /\ [][ExitCodeNext]_vars

\* The builds: testers of projects of every language, on Windows or not,
\* every state of the project and every behaviour of the build tools.
BuildInit ==
    /\ lang \in Languages
    /\ jar = "none"
    /\ exe = "none"
    /\ lastBuild = "none"
    /\ is_running = TRUE
    /\ launched = <<>>
    /\ diagnostic = NoDiagnostic
    /\ cmake_cache = "none"
    /\ os_name \in {"nt", "posix"}
    /\ NoTexts
    /\ NoOthers
    /\ slotDir = [s \in Slots |-> FALSE]
    /\ mips = [s \in Slots |-> Absent]
    /\ tmp_src = [s \in Slots |-> Absent]
    /\ tmp_exe = [s \in Slots |-> Absent]
    /\ IdleCall

BuildNext ==
    \/ \E l \in Languages : NewTester(l)
    \/ compile_project(Projects)
    \/ BuildSteps(StepEvents, ConfigureEvents, JarEffects, GccEffects)
    \/ CallerContinues

BuildSpec == BuildInit /\ [][BuildNext]_vars

\* ------------------------------------------------- the comparator applied
\* The texts handed to the comparator, not yet normalised or compared.
\* The lines joined by "\n", as the programs under test print them.
RECURSIVE Join(_)
Join(ls) ==
    IF ls = <<>> THEN <<>>
    ELSE IF Len(ls) = 1 THEN ls[1]
    ELSE ls[1] \o <<"\n">> \o Join(Tail(ls))

\* Outputs of up to MaxLines lines: an expected output whose lines are all
\* "5", and actual outputs in which some of the lines are empty.
ExpectedLines == { Join([i \in 1 .. n |-> <<"5">>]) : n \in 0 .. MaxLines }
ActualLines ==
    UNION { { Join(f) : f \in [1 .. n -> {<<"5">>, <<>>}] } : n \in 0 .. MaxLines }

ComparatorInit ==
    /\ \E pair \in (Texts \X Texts) \cup (ActualLines \X ExpectedLines) :
          /\ actual_text = pair[1]
          /\ expected_text = pair[2]
    /\ actual_norm = None
    /\ expected_norm = None
    /\ renormalized = None
    /\ equal = <<>>
    /\ diff_lines = <<>>
    /\ shown = <<>>
    /\ NoOthers
    /\ lang = "java"
    /\ jar = "java"
    /\ exe = "none"
    /\ lastBuild = "ok"
    /\ is_running = TRUE
    /\ NoBuild
    /\ slotDir = [s \in Slots |-> FALSE]
    /\ mips = [s \in Slots |-> Absent]
    /\ tmp_src = [s \in Slots |-> Absent]
    /\ tmp_exe = [s \in Slots |-> Absent]
    /\ IdleCall

\* What applying the comparator leaves alone.
ComparatorFrame == UNCHANGED <<lang, jar, exe, lastBuild, is_running, build, others,
                               call, tasks, slots, collect>>

\* s.split('\n'): the pieces of s between its newlines, one more than it
\* has newlines.
RECURSIVE Split(_)
Split(s) ==
    IF \A j \in 1 .. Len(s) : s[j] # "\n" THEN <<s>>
    ELSE LET j == CHOOSE k \in 1 .. Len(s) :
                      s[k] = "\n" /\ \A h \in 1 .. (k - 1) : s[h] # "\n"
         IN <<SubSeq(s, 1, j - 1)>> \o Split(SubSeq(s, j + 1, Len(s)))

\* The default of the parameter max_diff_lines; test_tab passes no other.
max_diff_lines == 8

\* `lines[i] if i < len(lines) else ""`, for the line number i + 1.
LineAt(lines, n) == IF n <= Len(lines) THEN lines[n] ELSE <<>>

\* A comparison of the lines both texts have, and of no other line.
DiffersWithinBoth(actual_lines, expected_lines, n) ==
    /\ n <= Len(actual_lines)
    /\ n <= Len(expected_lines)
    /\ actual_lines[n] # expected_lines[n]

\* `a != e` in the loop over range(max_len).
Differs(actual_lines, expected_lines, n) ==
    LineAt(actual_lines, n) # LineAt(expected_lines, n)

Max(a, b) == IF a >= b THEN a ELSE b

\* diff_lines of _log_failure, as line numbers.
DiffLines(actual_lines, expected_lines) ==
    LET max_len == Max(Len(actual_lines), Len(expected_lines))
    IN SelectSeq([n \in 1 .. max_len |-> n],
                 LAMBDA n : Differs(actual_lines, expected_lines, n))

\* diff_lines[:max_diff_lines]
Shown(diff) == SubSeq(diff, 1, IF Len(diff) < max_diff_lines THEN Len(diff)
                                                            ELSE max_diff_lines)

\* _log_failure(name, status, message, actual, expected) with both texts
\* given: they are normalised, split into lines and compared line by line;
\* the first max_diff_lines differing lines are displayed and the others
\* counted.
_log_failure ==
    /\ actual_norm = None
    /\ actual_norm' = normalize(actual_text)
    /\ expected_norm' = normalize(expected_text)
    /\ diff_lines' = DiffLines(Split(actual_norm'), Split(expected_norm'))
    /\ shown' = Shown(diff_lines')
    /\ UNCHANGED <<actual_text, expected_text, renormalized, equal>>
    /\ ComparatorFrame

\* normalize_output applied to a text it has returned.
Renormalize ==
    /\ actual_norm # None
    /\ renormalized = None
    /\ renormalized' = normalize(actual_norm)
    /\ UNCHANGED <<actual_text, expected_text, actual_norm, expected_norm, equal,
                   diff_lines, shown>>
    /\ ComparatorFrame

\* compare_outputs applied to the two texts in either order, and to the
\* first text and itself.
Compare ==
    /\ equal = <<>>
    /\ equal' = [ab |-> compare_outputs(actual_text, expected_text),
                 ba |-> compare_outputs(expected_text, actual_text),
                 aa |-> compare_outputs(actual_text, actual_text)]
    /\ UNCHANGED <<actual_text, expected_text, actual_norm, expected_norm, renormalized,
                   diff_lines, shown>>
    /\ ComparatorFrame

ComparatorNext ==
    \/ _log_failure
    \/ Renormalize
    \/ Compare

ComparatorSpec == ComparatorInit /\ [][ComparatorNext]_vars

\* ------------------------------------------------------- the test tab
\* The messages test_task puts on the queue, by type and run; the types
\* that make process_queue call _finish_test.
Msg(type, r) == [type |-> type, run |-> r]
Terminal == {"compile_failed", "error", "done", "stopped"}

\* Positions of a test_task thread that has not come to its end.
Alive == {"started", "compiled", "testing"}

Post(msgs) == posted' = posted \o msgs

\* A tester that was made and has done nothing.
TesterIdle ==
    /\ is_running = FALSE
    /\ lang = "java"
    /\ jar = "none"
    /\ exe = "none"
    /\ lastBuild = "none"
    /\ NoBuild
    /\ NoTexts
    /\ slotDir = [s \in Slots |-> FALSE]
    /\ mips = [s \in Slots |-> Absent]
    /\ tmp_src = [s \in Slots |-> Absent]
    /\ tmp_exe = [s \in Slots |-> Absent]
    /\ IdleCall

\* The test tab as it is created: no run, the stop button disabled.
GuiInit == TesterIdle /\ NoOthers

\* What the test tab leaves alone in this model: the tester's own state.
GuiFrame == UNCHANGED <<lang, jar, exe, lastBuild, build, texts, agent, server,
                        call, tasks, slots, collect>>

\* _run_tests(cases, title) for a list of n cases: refused while is_running;
\* else the flag is set, the stop button enabled and the thread started.
_run_tests(r, n) ==
    /\ ~is_running
    /\ task[r] = "none"
    /\ \A q \in Runs : q < r => task[q] # "none"
    /\ is_running' = TRUE
    /\ stop_btn' = TRUE
    /\ task' = [task EXCEPT ![r] = "started"]
    /\ pending' = [pending EXCEPT ![r] = n]
    /\ UNCHANGED <<posted, handled>>
    /\ GuiFrame

\* How compile_project ends for test_task: (True, msg), (False, msg), or
\* an exception that none of its except clauses sees (the mkdir of the
\* build directory is outside the try blocks).
CompileEnds == {"ok", "failed", "raises"}

\* test_task up to the end of compile_project: the tester is made, the
\* status message put, the project built.
test_task_compile(r, outcome) ==
    /\ task[r] = "started"
    /\ IF outcome = "ok"
         THEN /\ Post(<<Msg("status", r), Msg("compile_done", r)>>)
              /\ task' = [task EXCEPT ![r] = "compiled"]
       ELSE IF outcome = "failed"
         THEN /\ Post(<<Msg("status", r), Msg("compile_failed", r)>>)
              /\ task' = [task EXCEPT ![r] = "ended"]
       ELSE /\ Post(<<Msg("status", r)>>)
            /\ task' = [task EXCEPT ![r] = "died"]
    /\ UNCHANGED <<is_running, pending, handled, stop_btn>>
    /\ GuiFrame

\* `if not self.is_running:` after the build.
test_task_begin(r) ==
    /\ task[r] = "compiled"
    /\ IF ~is_running
         THEN /\ Post(<<Msg("stopped", r)>>)
              /\ task' = [task EXCEPT ![r] = "ended"]
         ELSE /\ Post(<<>>)
              /\ task' = [task EXCEPT ![r] = "testing"]
    /\ UNCHANGED <<is_running, pending, handled, stop_btn>>
    /\ GuiFrame

\* on_result(case, result, progress), called by test_parallel on the
\* thread of test_task: nothing is put while is_running is false.
on_result(r) ==
    /\ task[r] = "testing"
    /\ pending[r] > 0
    /\ pending' = [pending EXCEPT ![r] = @ - 1]
    /\ IF is_running THEN Post(<<Msg("result", r), Msg("progress", r)>>)
                     ELSE Post(<<>>)
    /\ UNCHANGED <<is_running, task, handled, stop_btn>>
    /\ GuiFrame

\* test_parallel returns, or raises with a case not yet reported, and
\* test_task puts its last message.
test_task_end(r, raised) ==
    /\ task[r] = "testing"
    /\ IF raised THEN pending[r] > 0 ELSE pending[r] = 0
    /\ Post(<<Msg(IF raised THEN "error"
                  ELSE IF is_running THEN "done" ELSE "stopped", r)>>)
    /\ task' = [task EXCEPT ![r] = "ended"]
    /\ UNCHANGED <<is_running, pending, handled, stop_btn>>
    /\ GuiFrame

\* The stop button, pressed while it is enabled: _stop_test clears the flag.
StopButton ==
    /\ stop_btn
    /\ is_running
    /\ is_running' = FALSE
    /\ UNCHANGED <<task, pending, posted, handled, stop_btn>>
    /\ GuiFrame

\* process_queue on the GUI thread: every message on the queue is taken;
\* a terminal one calls _finish_test, which clears the flag and disables
\* the stop button.
process_queue ==
    /\ handled < Len(posted)
    /\ handled' = Len(posted)
    /\ IF \E j \in (handled + 1) .. Len(posted) : posted[j].type \in Terminal
         THEN is_running' = FALSE /\ stop_btn' = FALSE
         ELSE UNCHANGED <<is_running, stop_btn>>
    /\ UNCHANGED <<task, pending, posted>>
    /\ GuiFrame

GuiNext ==
    \/ \E r \in Runs, n \in 0 .. MaxRunCases : _run_tests(r, n)
    \/ \E r \in Runs, outcome \in CompileEnds : test_task_compile(r, outcome)
    \/ \E r \in Runs : test_task_begin(r)
    \/ \E r \in Runs : on_result(r)
    \/ \E r \in Runs, raised \in BOOLEAN : test_task_end(r, raised)
    \/ StopButton
    \/ process_queue

GuiSpec == GuiInit /\ [][GuiNext]_vars

\* ---------------------------------------------------- the agent client
\* Messages of the history: a user text, an assistant message with the
\* ids of its tool_use blocks, a user message with the ids its
\* tool_result blocks answer.
UserText == [role |-> "user", uses |-> <<>>, results |-> <<>>]
Assistant(ids) == [role |-> "assistant", uses |-> ids, results |-> <<>>]
ToolResults(ids) == [role |-> "user", uses |-> <<>>, results |-> ids]

\* The ids of the n tool_use blocks of the response to API call c.
ToolUseIds(c, n) == [k \in 1 .. n |-> <<c, k>>]

AgentInit == TesterIdle /\ NoOthers

AgentFrame == UNCHANGED <<lang, jar, exe, lastBuild, is_running, build, texts,
                          gui, server, call, tasks, slots, collect>>

\* chat(user_message, on_message) up to its loop: the flag is cleared and
\* the user message appended.
chat ==
    /\ apc = "idle"
    /\ chats < MaxChats
    /\ chats' = chats + 1
    /\ _stop_flag' = FALSE
    /\ messages' = Append(messages, UserText)
    /\ apc' = "loop"
    /\ UNCHANGED <<tool_calls, tool_results, api_calls>>
    /\ AgentFrame

\* What _call_api gives: an exception or None, or a response with text
\* and n tool_use blocks, whose stop_reason is "tool_use" when n > 0.
Responses == {"fails"} \cup (BOOLEAN \X (0 .. MaxToolCalls))

\* One round of `while not self._stop_flag`: the API is called, the
\* assistant message appended when it has content, and the loop left
\* unless the response asks for tools.
chat_loop(response) ==
    /\ apc = "loop"
    /\ IF _stop_flag
         THEN /\ apc' = "idle"
              /\ UNCHANGED <<messages, tool_calls, tool_results, api_calls>>
       ELSE IF response = "fails" \/ api_calls = MaxApiCalls
         THEN /\ apc' = "idle"
              /\ api_calls' = IF api_calls = MaxApiCalls THEN api_calls
                                                         ELSE api_calls + 1
              /\ UNCHANGED <<messages, tool_calls, tool_results>>
       ELSE LET text == response[1]
                ids == ToolUseIds(api_calls + 1, response[2])
            IN /\ api_calls' = api_calls + 1
               /\ messages' = IF text \/ ids # <<>>
                                 THEN Append(messages, Assistant(ids))
                                 ELSE messages
               /\ tool_calls' = ids
               /\ tool_results' = <<>>
               /\ apc' = IF ids # <<>> THEN "tools" ELSE "idle"
    /\ UNCHANGED <<_stop_flag, chats>>
    /\ AgentFrame

\* `if self._stop_flag: break` in the loop over the tool calls.
StopsToolCalls == _stop_flag

\* One round of `for tool_call in tool_calls`: the tool is called and its
\* result kept; at the end of the loop, or at a stop, the results are
\* appended as a user message if there are any.
call_tool ==
    /\ apc = "tools"
    /\ IF tool_calls = <<>> \/ StopsToolCalls
         THEN /\ messages' = IF tool_results # <<>>
                                 THEN Append(messages, ToolResults(tool_results))
                                 ELSE messages
              /\ tool_calls' = <<>>
              /\ tool_results' = <<>>
              /\ apc' = "loop"
         ELSE /\ tool_results' = Append(tool_results, Head(tool_calls))
              /\ tool_calls' = Tail(tool_calls)
              /\ UNCHANGED <<messages, apc>>
    /\ UNCHANGED <<_stop_flag, api_calls, chats>>
    /\ AgentFrame

\* stop(), from the GUI thread at any time.
stop ==
    /\ ~_stop_flag
    /\ _stop_flag' = TRUE
    /\ UNCHANGED <<messages, apc, tool_calls, tool_results, api_calls, chats>>
    /\ AgentFrame

\* reset(), between two chats.
reset ==
    /\ apc = "idle"
    /\ messages # <<>>
    /\ messages' = <<>>
    /\ _stop_flag' = FALSE
    /\ UNCHANGED <<apc, tool_calls, tool_results, api_calls, chats>>
    /\ AgentFrame

AgentNext ==
    \/ chat
    \/ \E response \in Responses : chat_loop(response)
    \/ call_tool
    \/ stop
    \/ reset

AgentSpec == AgentInit /\ [][AgentNext]_vars

\* ------------------------------------------------------ the tool server
\* What a file of the work directory holds: nothing (Absent), what an
\* earlier session left (Stale), nothing after a write that failed once
\* the file was opened (Truncated), or what the generate call of case c
\* wrote (c). The current files are None or a path.
Path == <<"path">>
Truncated == -3

\* A server made in a work directory an earlier session has used.
ServerInit ==
    /\ TesterIdle
    /\ NoGui
    /\ NoAgent
    /\ current_testfile = None
    /\ current_input = None
    /\ testfile_txt \in {Absent, Stale}
    /\ input_txt \in {Absent, Stale}
    /\ case_no = 0
    /\ generated = FALSE
    /\ last = NoCall

ServerFrame == UNCHANGED <<lang, jar, exe, lastBuild, is_running, build, texts,
                           gui, agent, call, tasks, slots, collect>>

\* What is recorded of the tool call `tool` that is about to return.
Called(tool, ok) ==
    [NoCall EXCEPT !.tool = tool, !.ok = ok, !.case = case_no,
                   !.generated = generated]

\* How `with open(path, "w") ... f.write(content)` ends: the content is
\* written, open raises, or write raises after open has emptied the file.
WriteEnds == {"written", "open_fails", "write_fails"}

\* The file after such a write of case c.
Written(file, end, c) ==
    IF end = "written" THEN c
    ELSE IF end = "write_fails" THEN Truncated
    ELSE file

\* _generate_testfile(content): empty content is refused at once; else
\* current_testfile is set and the file written.
generate_testfile(empty, end) ==
    /\ IF empty
         THEN /\ UNCHANGED <<current_testfile, testfile_txt, generated>>
              /\ last' = Called("generate_testfile", FALSE)
         ELSE /\ current_testfile' = Path
              /\ testfile_txt' = Written(testfile_txt, end, case_no)
              /\ generated' = (generated \/ end = "written")
              /\ last' = [Called("generate_testfile", end = "written")
                             EXCEPT !.changed = TRUE,
                                    !.wrote = IF end = "open_fails" THEN {}
                                              ELSE {"testfile.txt"}]
    /\ UNCHANGED <<current_input, input_txt, case_no>>
    /\ ServerFrame

\* _generate_input(content): current_input is set first; content without
\* an integer is refused, empty content and integers are written.
generate_input(parses, end) ==
    /\ current_input' = Path
    /\ IF parses
         THEN /\ input_txt' = Written(input_txt, end, case_no)
              /\ last' = [Called("generate_input", end = "written")
                             EXCEPT !.wrote = IF end = "open_fails" THEN {}
                                              ELSE {"input.txt"}]
         ELSE /\ UNCHANGED input_txt
              /\ last' = Called("generate_input", FALSE)
    /\ UNCHANGED <<current_testfile, testfile_txt, case_no, generated>>
    /\ ServerFrame

\* `self.current_testfile and self.current_testfile.exists()`, and the
\* same for the input.
HasTestfile == current_testfile # None /\ testfile_txt # Absent
HasInput == current_input # None /\ input_txt # Absent

\* How _run_compiler goes once it has a testfile: the compiler jar is
\* missing, the compiler fails or gives no mips.txt, or the simulator is
\* run.
RunEnds == {"no_jar", "compiler_fails", "simulated"}

\* _run_compiler(): refused without a testfile; else the compiler is run
\* and then the simulator, fed with the input if there is one.
run_compiler(end) ==
    /\ IF ~HasTestfile \/ end = "no_jar"
         THEN last' = Called("run_compiler", FALSE)
         ELSE last' = [Called("run_compiler", end = "simulated")
                          EXCEPT !.launched = TRUE,
                                 !.wrote = {"mips.txt"},
                                 !.fed = IF end = "simulated" /\ HasInput
                                           THEN input_txt ELSE Absent]
    /\ UNCHANGED <<current_testfile, current_input, testfile_txt, input_txt,
                   case_no, generated>>
    /\ ServerFrame

\* _save_testcase(lib_name, test_number): refused without a library name
\* or a testfile; else the testfile is copied to the library, and the
\* input if there is one. The current files stay as they are.
save_testcase(named) ==
    /\ case_no < MaxServerCases
    /\ IF ~named \/ ~HasTestfile
         THEN /\ last' = Called("save_testcase", FALSE)
              /\ UNCHANGED case_no
         ELSE /\ last' = [Called("save_testcase", TRUE)
                             EXCEPT !.wrote = {"testfileN.txt"} \cup
                                        (IF HasInput THEN {"inputN.txt"} ELSE {}),
                                    !.stored = IF HasInput THEN input_txt ELSE Absent]
              /\ case_no' = case_no + 1
    /\ UNCHANGED <<current_testfile, current_input, testfile_txt, input_txt,
                   generated>>
    /\ ServerFrame

\* _discard_case(reason): the current files are removed and forgotten.
discard_case ==
    /\ case_no < MaxServerCases
    /\ testfile_txt' = IF current_testfile # None THEN Absent ELSE testfile_txt
    /\ input_txt' = IF current_input # None THEN Absent ELSE input_txt
    /\ current_testfile' = None
    /\ current_input' = None
    /\ generated' = FALSE
    /\ case_no' = case_no + 1
    /\ last' = Called("discard_case", TRUE)
    /\ ServerFrame

ServerNext ==
    \/ \E empty \in BOOLEAN, end \in WriteEnds : generate_testfile(empty, end)
    \/ \E parses \in BOOLEAN, end \in WriteEnds : generate_input(parses, end)
    \/ \E end \in RunEnds : run_compiler(end)
    \/ \E named \in BOOLEAN : save_testcase(named)
    \/ discard_case

ServerSpec == ServerInit /\ [][ServerNext]_vars

\* ------------------------------------------------------------- C1 .. C10
InTestParallel == mode = "test_parallel"
CallOver == pc \in {"returned", "raised"}

\* C1: two cases bound to the same slot (equal index mod max_workers) are
\* never inside test() at the same time.
C1_SlotOccupantsSerialized ==
    \A i \in Running : \A j \in Running : i # j => WorkerId(i) # WorkerId(j)

\* C2: at every moment of a test_parallel call at most max_workers cases are
\* between the start and the return of test().
C2_AtMostKMidPipeline == Cardinality(Running) <= max_workers

\* Both threads of a pool of two are inside test() and a third case waits.
C2_Witness ==
    /\ InTestParallel
    /\ max_workers = MaxWorkers
    /\ Cardinality(Running) = max_workers
    /\ \E i \in Cases : tpc[i] = "queued"

\* The number of callback calls made for case i.
CallbacksFor(i) == Cardinality({ j \in 1 .. Len(cbs) : cbs[j].case = i })

\* C3: a test_parallel call with a callback has invoked the callback exactly
\* once for each case of the list when it is over, on every path, the path
\* without a build artifact included.
C3_OneCallbackPerCase ==
    (InTestParallel /\ has_callback /\ CallOver)
        => \A i \in CasesOf(total) : CallbacksFor(i) = 1

\* p <= q for two progress values, and p = 100.
ProgressLeq(p, q) == p.num * q.den <= q.num * p.den
IsHundred(p) == p.num = 100 * p.den

\* C4: the progress values passed to the callback are non-decreasing, and
\* the value 100 has been delivered exactly once when the call (on a list
\* that is not empty) is over.
C4_ProgressMonotoneToHundred ==
    /\ \A j \in 1 .. Len(cbs) : \A l \in 1 .. Len(cbs) :
          j < l => ProgressLeq(cbs[j].progress, cbs[l].progress)
    /\ (InTestParallel /\ has_callback /\ CallOver /\ total >= 1)
          => Cardinality({ j \in 1 .. Len(cbs) : IsHundred(cbs[j].progress) }) = 1

C6_FailedBuildSkipsAll ==
    lastBuild = "failed" =>
        \A i \in Cases :
            /\ invoked[i] = <<>>
            /\ tpc[i] = "finished" => res[i].status = SKIPPED

\* C7: the candidate stage of a case is launched only with an artifact that
\* a build for the configured language produced.
C7_ArtifactBuiltForLanguage ==
    \A i \in Cases : invoked[i] # <<>> => ArtifactFile = lang

\* C8: in every TestResult, actual_output and expected_output are both set
\* if and only if the status is Failed, and both unset otherwise.
C8_OutputsIffFailed ==
    \A i \in Cases :
        res[i] # NoResult =>
            /\ res[i].status \in TestStatus
            /\ res[i].status = FAILED =>
                  res[i].actual_output # None /\ res[i].expected_output # None
            /\ res[i].status # FAILED =>
                  res[i].actual_output = None /\ res[i].expected_output = None

\* A call has returned a Failed result, the two outputs attached.
C8_Witness ==
    /\ pc = "returned"
    /\ \E i \in Cases : res[i].status = FAILED /\ res[i].actual_output # None

\* The candidate stage of case i was launched and ended in one of the ways
\* named by C9.
CandidateFailed(i) ==
    /\ invoked[i] # <<>>
    /\ invoked[i][1].outcome \in {"nonzero", "exit0_nomips", "timeout", "launch_error"}

\* C9: when the candidate stage exits non-zero, produces no mips.txt, times
\* out or cannot be launched, the result is CompileError and no later stage
\* is launched for the case.
C9_CandidateFailureIsCompileError ==
    \A i \in Cases :
        CandidateFailed(i) =>
            /\ tpc[i] = "finished"
            /\ res[i].status = COMPILE_ERROR
            /\ Stages(i) = <<"compiler">>

\* The simulator of case i was launched and timed out, or could not be launched.
MarsFailed(i) ==
    /\ Len(invoked[i]) >= 2
    /\ invoked[i][2].outcome \in {"timeout", "launch_error"}

\* C10: when the simulator cannot be launched or exceeds its timeout, the
\* result is RuntimeError, with the timeout's own message in the timeout
\* case, and the reference stage is not launched for the case.
C10_MarsFailureIsRuntimeError ==
    \A i \in Cases :
        MarsFailed(i) =>
            /\ tpc[i] = "finished"
            /\ res[i].status = RUNTIME_ERROR
            /\ invoked[i][2].outcome = "timeout" <=> res[i].message = "mars_timeout"
            /\ Stages(i) = <<"compiler", "mars">>

\* A call has returned the result of a case whose simulator timed out.
C10_Witness ==
    /\ pc = "returned"
    /\ \E i \in Cases : MarsFailed(i) /\ invoked[i][2].outcome = "timeout"

\* ------------------------------------------------------------ C11 .. C20
\* The reference compiler or the reference executable of case i was started
\* and failed: not found, timed out, non-zero exit of the compiler, other error.
RefFailed(i) ==
    \E j \in 1 .. Len(invoked[i]) :
        /\ invoked[i][j].stage \in {"gcc", "ref"}
        /\ invoked[i][j].outcome \in {"missing", "timeout", "nonzero", "error"}

\* The result of case i is settled: _run_gcc is in its finally block, or
\* test() has returned.
Settled(i) == tpc[i] \in {"finally", "finished"}

\* C11: a case whose reference compilation or reference run fails is
\* reported as Skipped; a case reported as Passed or Failed has a reference
\* that compiled and ran to its exit.
C11_ReferenceFailureIsSkipped ==
    \A i \in Cases :
        /\ RefFailed(i) => Settled(i) /\ res[i].status = SKIPPED
        /\ res[i].status \in {PASSED, FAILED} =>
              /\ Len(invoked[i]) = 4
              /\ invoked[i][3].outcome = "ok"
              /\ invoked[i][4].outcome = "exited"

\* A call has returned the result of a case whose simulator printed its
\* output and whose reference executable timed out.
C11_Witness ==
    /\ pc = "returned"
    /\ \E i \in Cases :
          /\ Len(invoked[i]) = 4
          /\ invoked[i][2].out # None
          /\ invoked[i][4].outcome = "timeout"

\* Candidate, simulator and reference compilation of case i succeeded and
\* the reference executable ran to its exit.
AllStagesSucceeded(i) ==
    /\ Len(invoked[i]) = 4
    /\ invoked[i][4].outcome = "exited"

\* C12: when the three stages before the comparison succeed, the result is
\* Passed exactly when compare_outputs holds of the simulator's stdout and
\* the reference's stdout, and otherwise Failed with the two raw outputs.
C12_VerdictFollowsComparator ==
    \A i \in Cases :
        AllStagesSucceeded(i) =>
            LET actual == invoked[i][2].out
                expected == invoked[i][4].out
            IN /\ Settled(i)
               /\ res[i].status = PASSED <=> compare_outputs(actual, expected)
               /\ ~compare_outputs(actual, expected) =>
                     /\ res[i].status = FAILED
                     /\ res[i].actual_output = actual
                     /\ res[i].expected_output = expected

\* A case has passed on two outputs that differ as raw texts.
C12_Witness ==
    \E i \in Cases :
        /\ AllStagesSucceeded(i)
        /\ res[i].status = PASSED
        /\ invoked[i][2].out # invoked[i][4].out

\* The stages of test() in the order of its code.
StageOrder == <<"compiler", "mars", "gcc", "ref">>

\* C19: one run of test() launches at most four processes, at most one per
\* stage and in the order candidate compiler, simulator, reference compile,
\* reference run.
C19_StagesOnceInOrder ==
    \A i \in Cases :
        /\ Len(invoked[i]) <= 4
        /\ Stages(i) = SubSeq(StageOrder, 1, Len(invoked[i]))

\* A test() has returned after its fourth process ran into its timeout.
C19_Witness ==
    \E i \in Cases :
        /\ tpc[i] = "finished"
        /\ Stages(i) = StageOrder
        /\ invoked[i][4].outcome = "timeout"

\* C13: whatever went wrong inside one case's test() in test_parallel, every
\* other case whose test() returned a result has had it delivered to the
\* callback once and finds it in the list test_parallel returns.
C13_SiblingsStillReported ==
    (InTestParallel /\ has_callback /\ CallOver) =>
        \A i \in CasesOf(total) :
            tpc[i] = "finished" =>
                /\ pc = "returned"
                /\ i \in Collected
                /\ CallbacksFor(i) = 1

\* C14: once the caller has asked to stop during a test_parallel call, no
\* further task is submitted to the pool and no submitted task is started:
\* only the cases inside test() at that moment go on.
C14_NoStartAfterCancel ==
    [][(InTestParallel /\ ~CallOver /\ ~is_running) =>
          /\ submitted' = submitted
          /\ \A i \in Cases :
                tpc[i] \in {"created", "queued"} => tpc'[i] = tpc[i]]_vars

\* The result of a test() that launched the candidate compiler, as the
\* outcomes of the external tools alone determine it: how each process
\* ended, whether the compiler wrote mips.txt, the two captured outputs.
ResultOfOutcomes(inv) ==
    LET compiler == inv[1].outcome IN
    IF compiler = "launch_error" THEN TestResult(COMPILE_ERROR, "exception", None, None)
    ELSE IF compiler = "timeout" THEN TestResult(COMPILE_ERROR, "compile_timeout", None, None)
    ELSE IF compiler = "nonzero" THEN TestResult(COMPILE_ERROR, "compiler_error", None, None)
    ELSE IF compiler = "exit0_nomips" THEN TestResult(COMPILE_ERROR, "no_mips", None, None)
    ELSE IF inv[2].outcome = "timeout" THEN TestResult(RUNTIME_ERROR, "mars_timeout", None, None)
    ELSE IF inv[2].outcome = "launch_error" THEN TestResult(RUNTIME_ERROR, "exception", None, None)
    ELSE IF Len(inv) = 2 THEN Skip("exception")
    ELSE IF inv[3].outcome # "ok" THEN Skip(GccError(inv[3].outcome))
    ELSE IF inv[4].outcome # "exited" THEN Skip(GccError(inv[4].outcome))
    ELSE IF compare_outputs(inv[2].out, inv[4].out) THEN TestResult(PASSED, "", None, None)
    ELSE TestResult(FAILED, "mismatch", inv[2].out, inv[4].out)

\* C15: a run of test(), the first in its slot or a later one, returns the
\* status and outputs that the outcomes of its own external tools determine,
\* whatever files (testfile.txt, mips.txt, tmp_test.c, tmp_test.exe) the
\* slot held when it began: two runs with the same outcomes agree.
C15_ResultIndependentOfLeftovers ==
    (mode = "test" /\ tpc[0] = "finished" /\ invoked[0] # <<>>) =>
        res[0] = ResultOfOutcomes(invoked[0])

\* A test() has returned CompileError for a compiler that exited 0 without
\* writing mips.txt, in a slot that holds temporary files of an earlier run.
C15_Witness ==
    /\ mode = "test"
    /\ pc = "returned"
    /\ invoked[0] # <<>>
    /\ invoked[0][1].outcome = "exit0_nomips"
    /\ tmp_src[0] = Stale
    /\ tmp_exe[0] = Stale

\* C20: when _run_gcc returns, on each of its exit paths, neither
\* tmp_test.c nor tmp_test.exe is in the slot directory of the case.
C20_TempFilesRemoved ==
    [][\A i \in Cases :
          (tpc[i] = "finally" /\ tpc'[i] = "finished") =>
              /\ tmp_src'[WorkerId(i)] = Absent
              /\ tmp_exe'[WorkerId(i)] = Absent]_vars

\* C17: the list test_parallel returns holds exactly one pair for each case
\* of the input list: no case twice while the list is built, none missing
\* when it is returned.
C17_OneResultPerCase ==
    InTestParallel =>
        /\ \A j \in 1 .. Len(results) : \A l \in 1 .. Len(results) :
              results[j] = results[l] => j = l
        /\ pc = "returned" =>
              /\ Len(results) = total
              /\ Range(results) = CasesOf(total)

\* test_parallel has returned the results of a full list whose cases went
\* through the pool and completed in another order than the list's.
C17_Witness ==
    /\ InTestParallel
    /\ pc = "returned"
    /\ total = MaxCases
    /\ \E i \in Cases : invoked[i] # <<>>
    /\ results # [j \in 1 .. total |-> j - 1]

\* The position of case i among the completed futures.
CompletionRank(i) == CHOOSE j \in 1 .. Len(finishOrder) : finishOrder[j] = i

\* C18: the callbacks are invoked in completion order: a case whose test()
\* returned earlier has its callback earlier, also when it returned while
\* later tasks were still being submitted.
C18_CallbacksInCompletionOrder ==
    \A j \in 1 .. Len(cbs) : \A l \in 1 .. Len(cbs) :
        j < l => CompletionRank(cbs[j].case) < CompletionRank(cbs[l].case)

\* C16: every case submitted to the pool eventually has a result, and a
\* test_parallel call eventually returns.
C16_EveryCaseEndsCallReturns ==
    /\ \A i \in Cases : (tpc[i] = "queued") ~> (tpc[i] = "finished")
    /\ InTestParallel ~> (pc = "returned")

\* ------------------------------------------------------------ C21 .. C30
\* C21: test_parallel returns to its caller, with its list or with an
\* exception, only when none of the tasks it submitted is queued or running:
\* every submitted task has finished, also when the caller's stop flag was
\* set during the run.
C21_ReturnsWhenNoTaskRuns ==
    (InTestParallel /\ CallOver) =>
        \A i \in Cases : i < submitted => tpc[i] \in Done

\* A call during which a stop was asked for has returned; it had submitted
\* two tasks.
C21_Witness ==
    /\ InTestParallel
    /\ CallOver
    /\ ~is_running
    /\ submitted = 2
    /\ \A i \in CasesOf(2) : tpc[i] \in Done

\* The step of the submitting thread submits the next task of the list.
SubmitsNext ==
    /\ submitted' = submitted + 1
    /\ tpc' = [tpc EXCEPT ![submitted] = "queued"]

\* C22: a list shorter than every ramp_up_threshold of the calls is not
\* ramped up, a longer one is; without ramp-up the submitting thread never
\* sleeps between submissions; with it the tasks are submitted one at a time in
\* list order, the thread sleeps after every submission but the last, and
\* the sleep changes nothing but the position of the submitting thread (no
\* task is held up by it).
C22_AdmissionPolicy ==
    [][/\ (InTestParallel' /\ total' < SmallRampUpThreshold) => ~use_ramp_up'
       /\ (InTestParallel' /\ total' > SmallRampUpThreshold) => use_ramp_up'
       /\ ~use_ramp_up => pc' # "sleep"
       /\ (pc = "submit" /\ submitted' # submitted) =>
              /\ SubmitsNext
              /\ use_ramp_up => (pc' = "sleep" <=> submitted' < total)
              /\ ~use_ramp_up => pc' = "submit"
       /\ (pc = "sleep" /\ pc' # "sleep") =>
              /\ pc' = "submit"
              /\ UNCHANGED <<submitted, tasks, slots, collect>>
       /\ pc = "sleep" => submitted < total
      ]_vars

\* The submitting thread sleeps after its first submission while the task
\* it submitted has already run to its end.
C22_Witness ==
    /\ pc = "sleep"
    /\ use_ramp_up
    /\ submitted = 1
    /\ tpc[0] = "finished"

\* C23: a compile_project call that returns failure leaves Compiler.jar and
\* Compiler.exe as they were before the call: the step that ends a failing
\* build changes neither file (no earlier step writes them).
C23_FailedBuildKeepsArtifact ==
    [][(pc # "built" /\ pc' = "built" /\ lastBuild' = "failed") =>
          (jar' = jar /\ exe' = exe)]_vars

\* The subprocess.run calls of the build under way that did not end well.
FailedSteps == { j \in 1 .. Len(launched) : launched[j].outcome # "ok" }

BuildReturnedFailure ==
    /\ pc = "built"
    /\ lastBuild = "failed"
    /\ diagnostic.kind \notin {"none", "success"}

\* C24: in the Java build, when javac does not end with exit code 0 (a
\* non-zero exit, a timeout, a missing command) the archiver is never
\* launched, and when javac or the archiver fails compile_java_project has
\* returned (False, diagnostic).
C24_JavaStepFailureAborts ==
    \A j \in FailedSteps :
        launched[j].step \in {"javac", "jar"} =>
            /\ j = Len(launched)
            /\ launched[j].step = "javac" => j = 1
            /\ BuildReturnedFailure

\* javac has timed out and the build has returned.
C24_Witness ==
    /\ pc = "built"
    /\ launched = <<[step |-> "javac", outcome |-> "timeout"]>>
    /\ lastBuild = "failed"

ConfigureSteps == {"configure", "retry_configure"}
StepsLaunched(steps) == { j \in 1 .. Len(launched) : launched[j].step \in steps }

\* C25: one compile_c_cpp_project call launches configure at most twice;
\* the second configure comes right after a first one that failed with the
\* no-compiler signature, and when it fails too the build has returned
\* failure with no build step launched.
C25_ConfigureAtMostTwice ==
    /\ Cardinality(StepsLaunched(ConfigureSteps)) <= 2
    /\ Cardinality(StepsLaunched({"configure"})) <= 1
    /\ \A j \in StepsLaunched({"retry_configure"}) :
          /\ j = 2
          /\ launched[1] = [step |-> "configure", outcome |-> "needs_compiler"]
          /\ launched[j].outcome # "ok" =>
                /\ j = Len(launched)
                /\ BuildReturnedFailure
    /\ pc = "retry_configure" =>
          launched = <<[step |-> "configure", outcome |-> "needs_compiler"]>>

\* Both configures have failed and the build has returned.
C25_Witness ==
    /\ pc = "built"
    /\ Len(launched) = 2
    /\ launched[2].step = "retry_configure"
    /\ launched[2].outcome = "nonzero"
    /\ lastBuild = "failed"

\* C26: once the build directory of the project holds the cache of a
\* configure that succeeded, it keeps it for this project, no configure is
\* launched, and a compile_c_cpp_project call that takes the CMake path
\* launches the build step first.
C26_ConfiguredCacheReused ==
    [][cmake_cache = "configured" =>
          /\ pc' \notin ConfigureSteps
          /\ Len(launched') > Len(launched) =>
                launched'[Len(launched')].step \notin ConfigureSteps
          /\ (pc = "idle" /\ pc' \in ConfigureSteps \cup {"cmake_build"}) =>
                (pc' = "cmake_build" /\ launched' = <<>>)
          /\ lang' = lang => cmake_cache' = "configured"]_vars

\* A call has gone to the build step without configuring: the cache was
\* there.
C26_Witness ==
    /\ pc = "cmake_build"
    /\ launched = <<>>
    /\ cmake_cache = "configured"

\* C27: when a command of the toolchain is missing (the cmake command is
\* not found before the CMake path starts, or a subprocess.run raises
\* FileNotFoundError), nothing is launched after it and compile_project has
\* returned (False, diagnostic), the diagnostic naming the missing command.
C27_MissingCommandIsTerminalAndNamed ==
    /\ \A j \in 1 .. Len(launched) :
          launched[j].outcome = "missing" =>
              /\ j = Len(launched)
              /\ BuildReturnedFailure
              /\ diagnostic = Diagnostic("missing", Command(launched[j].step))
    /\ (pc = "built" /\ diagnostic.kind = "missing") =>
          /\ lastBuild = "failed"
          /\ diagnostic.command \in {"javac", "jar", "cmake", "gcc"}

BuildPositions == {"javac", "jar", "configure", "retry_configure", "cmake_build",
                   "gcc_build", "built"}

\* C28: with a configured language outside {java, c, cpp}, compile_project
\* returns failure at once: no subprocess.run is made, and neither artifact,
\* the CMake cache nor a file of a slot directory is created or changed.
C28_UnsupportedLanguageTouchesNothing ==
    [][lang \notin SUPPORTED_LANGUAGES =>
          /\ launched = <<>>
          /\ pc \in BuildPositions => pc = "built"
          /\ (pc = "idle" /\ pc' \in BuildPositions) =>
                /\ pc' = "built"
                /\ lastBuild' = "failed"
                /\ diagnostic'.kind = "unsupported_language"
                /\ launched' = <<>>
                /\ UNCHANGED <<jar, exe, cmake_cache, slots>>]_vars

\* compile_project has returned for a project of an unsupported language
\* while the work directory holds the artifact of another project.
C28_Witness ==
    /\ pc = "built"
    /\ lang = "rust"
    /\ diagnostic.kind = "unsupported_language"
    /\ exe # "none"

\* C29: the comparator's equal is reflexive and symmetric: a text equals
\* itself, and two texts are equal in one order iff they are in the other.
C29_EqualReflexiveSymmetric ==
    equal # <<>> => (equal.aa /\ (equal.ab <=> equal.ba))

\* Two different texts were compared and found equal.
C29_Witness ==
    /\ equal # <<>>
    /\ actual_text # expected_text
    /\ equal.ab

\* C30: normalize is idempotent: normalising a normalised text gives the
\* same text.
C30_NormalizeIdempotent ==
    renormalized # None => renormalized = actual_norm

\* A text that normalisation changes was normalised twice.
C30_Witness ==
    /\ renormalized # None
    /\ actual_norm # actual_text

\* ------------------------------------------------------------ C31 .. C40
\* C32: the mips.txt the simulator stage of a case reads is the one the
\* candidate compiler of the same case wrote in the same test() call: while
\* a case is at its simulator stage, the mips.txt of its slot is its own.
C32_SimulatesOwnAssembly ==
    \A i \in Cases : tpc[i] = "mars" => mips[WorkerId(i)] = i

\* C33: no callback of test_parallel is made before every task of the call
\* was submitted; in ramp-up mode the results of cases that finish while
\* tasks are still being submitted wait.
C33_NoCallbackBeforeAllSubmitted ==
    /\ cbs # <<>> => submitted = total
    /\ pc \in {"submit", "sleep"} => cbs = <<>>

\* In ramp-up mode a case has finished, its callback has not been made and
\* the submitting thread still has tasks to submit.
C33_Witness ==
    /\ use_ramp_up
    /\ has_callback
    /\ submitted < total
    /\ \E i \in Cases : tpc[i] = "finished"
    /\ cbs = <<>>

\* The simulator and the reference executable of case i were started and
\* exited, with whatever codes.
BothExited(i) ==
    /\ Len(invoked[i]) = 4
    /\ invoked[i][2].outcome \in Exited
    /\ invoked[i][4].outcome \in Exited

\* C36: when the simulator and the reference executable exit within their
\* timeouts, their captured stdout is compared whatever their exit codes:
\* the result is Passed or Failed as compare_outputs says; a simulator that
\* exits non-zero has its stdout taken all the same.
C36_ExitCodesPlayNoPart ==
    \A i \in Cases :
        /\ BothExited(i) =>
              /\ Settled(i)
              /\ res[i].status \in {PASSED, FAILED}
              /\ res[i].status = PASSED <=>
                    compare_outputs(invoked[i][2].out, invoked[i][4].out)
        /\ (Len(invoked[i]) >= 2 /\ invoked[i][2].outcome \in Exited) =>
              /\ invoked[i][2].out # None
              /\ res[i].status # RUNTIME_ERROR

\* A case whose simulator and reference executable both exited non-zero
\* has passed.
C36_Witness ==
    \E i \in Cases :
        /\ BothExited(i)
        /\ invoked[i][2].outcome = "exited_nonzero"
        /\ invoked[i][4].outcome = "exited_nonzero"
        /\ tpc[i] = "finished"
        /\ res[i].status = PASSED

\* The stage of case i that timed out, if one did.
TimedOut(i, stage) ==
    \E j \in 1 .. Len(invoked[i]) :
        invoked[i][j].stage = stage /\ invoked[i][j].outcome = "timeout"

\* C37: no result has the status TIMEOUT: a timeout of the candidate is
\* reported as CompileError, of the simulator as RuntimeError, of the
\* reference compiler or executable as Skipped.
C37_NoTimeoutStatus ==
    \A i \in Cases :
        /\ res[i].status # TIMEOUT
        /\ TimedOut(i, "compiler") => res[i].status = COMPILE_ERROR
        /\ TimedOut(i, "mars") => res[i].status = RUNTIME_ERROR
        /\ (TimedOut(i, "gcc") \/ TimedOut(i, "ref")) => res[i].status = SKIPPED

\* test() has returned for a case whose candidate compiler timed out.
C37_Witness ==
    \E i \in Cases :
        /\ TimedOut(i, "compiler")
        /\ tpc[i] = "finished"
        /\ res[i].status = COMPILE_ERROR

\* C34: a run of the test tab starts only when no test_task thread of an
\* earlier run is still executing: at most one such thread is alive at any
\* time, also after stop was pressed.
C34_OneRunAtATime ==
    Cardinality({ r \in Runs : task[r] \in Alive }) <= 1

\* The messages of run r, in the order they were put.
MessagesOf(r) == SelectSeq(posted, LAMBDA m : m.run = r)

\* C35: a run whose thread is over has put exactly one terminal message,
\* and it is the last message of the run; a run whose thread is alive has
\* put none; once every run is over and every message was taken,
\* is_running is false.
C35_OneTerminalMessageLast ==
    /\ \A r \in Runs :
          LET mine == MessagesOf(r)
              terminal == { j \in 1 .. Len(mine) : mine[j].type \in Terminal }
          IN /\ task[r] \in {"ended", "died"} => terminal = {Len(mine)}
             /\ task[r] \in Alive => terminal = {}
    /\ (/\ \A r \in Runs : task[r] \notin Alive
        /\ \E r \in Runs : task[r] # "none"
        /\ handled = Len(posted)) => ~is_running

\* C38: whenever chat() is not between appending an assistant message and
\* appending its tool results, every assistant message of the history
\* that has tool_use blocks is followed by a user message with one
\* tool_result for each of its tool_use ids.
C38_ToolUsesAnswered ==
    apc \in {"idle", "loop"} =>
        \A i \in 1 .. Len(messages) :
            messages[i].uses # <<>> =>
                /\ i < Len(messages)
                /\ messages[i + 1].results = messages[i].uses

\* C39: the input save_testcase stores with a case, and the input
\* run_compiler feeds to the simulator, was written by a generate_input
\* call of the case that is current at that call.
C39_InputBelongsToCase ==
    /\ last.stored # Absent => last.stored = last.case
    /\ last.fed # Absent => last.fed = last.case

\* C40: a run_compiler or save_testcase call made while no
\* generate_testfile has succeeded since the start or the last discard
\* returns failure, starts no process and writes no file; a
\* generate_testfile call with empty content fails and leaves the current
\* testfile as it was.
C40_NothingWithoutTestfile ==
    /\ last.tool \in {"run_compiler", "save_testcase"} /\ ~last.generated =>
          ~last.ok /\ ~last.launched /\ last.wrote = {}
    /\ last.tool = "generate_testfile" /\ last.wrote = {} /\ ~last.changed =>
          ~last.ok

\* The line numbers at which the texts the comparator compares differ, a
\* line a text does not have counting as empty.
LinesOf(text) == Split(normalize(text))
LineOr(lines, n) == IF n \in DOMAIN lines THEN lines[n] ELSE <<>>
Differing ==
    LET a == LinesOf(actual_text)
        e == LinesOf(expected_text)
    IN { n \in 1 .. (MaxLines + MaxTextLen + 2) : LineOr(a, n) # LineOr(e, n) }

\* C31 as stated: once _log_failure has run, it has displayed the line
\* number n exactly when line n of the two normalised texts differs, and
\* at least one line when the comparator finds the texts unequal.
C31_ReportsExactlyDifferingLines ==
    actual_norm # None =>
        /\ Range(shown) = Differing
        /\ ~compare_outputs(actual_text, expected_text) => shown # <<>>

\* C31: once _log_failure has run, the lines it found to differ are
\* exactly the lines at which the two normalised texts differ, a missing
\* line counting as empty; it has displayed the first max_diff_lines of
\* them in ascending order and counted the others; and at least one line
\* is displayed when the comparator finds the texts unequal.
C31_ReportsFirstDifferingLines ==
    actual_norm # None =>
        LET differing == Differing
        IN /\ Range(diff_lines) = differing
           /\ Len(diff_lines) = Cardinality(differing)
           /\ Range(shown) \subseteq differing
           /\ \A j \in 1 .. (Len(shown) - 1) : shown[j] < shown[j + 1]
           /\ \A n \in differing \ Range(shown) :
                 /\ Len(shown) = max_diff_lines
                 /\ \A j \in 1 .. Len(shown) : shown[j] < n
           /\ ~compare_outputs(actual_text, expected_text) => shown # <<>>

\* _log_failure has run on texts that differ in more lines than it displays.
C31_Witness ==
    /\ actual_norm # None
    /\ Len(diff_lines) > max_diff_lines
    /\ Len(shown) = max_diff_lines

====
